---- MODULE Spec2Model ----
(***************************************************************************)
(* Rule-based document analysis of the k8s-cluster-api skill scripts:      *)
(* validate_manifests.py, lint_cluster_templates.py, migration_checker.py, *)
(* audit_security.py, check_provider_contract.py, check_cluster_health.py. *)
(*                                                                         *)
(* Parsed YAML/JSON values are tagged records, so that Python's dynamic    *)
(* behaviour (truthiness, `in`, `.get`, hashing, raised exceptions) is     *)
(* modelled as the interpreter performs it.                                *)
(***************************************************************************)
EXTENDS Integers, Sequences, FiniteSets, TLC

VARIABLES
    doc,        \* the parsed document handed to a document check
    path,       \* the dotted path handed to get_nested (a tuple of keys)
    op,         \* which document check has run on doc ("none" before any)
    result,     \* what the check returned: [raised, out] (out: findings or value)
    findings,   \* AuditReport.findings
    violations, \* ContractReport.violations
    cluster,    \* the Cluster resource run_audit is auditing
    apc,        \* run_audit's position in the checks of that cluster
    added,      \* the findings the last executed check added to the report
    crd,        \* the CRD handed to a contract check
    cop,        \* which contract check has run on crd ("none" before any)
    henv,       \* check_cluster_health: the command line and what kubectl answers
    hpc,        \* check_cluster_health: main's position
    issues,     \* check_cluster_health: the issues collected
    hexit,      \* check_cluster_health: <<status>> once the process has one
    menv,       \* validate/lint main: the command line and the files found
    mpc,        \* validate/lint main: main's position
    results,    \* validate/lint main: the findings of each file analysed so far
    total_errors,   \* validate/lint main: the running error total
    total_warnings, \* validate/lint main: the running warning total
    mexit,      \* validate/lint main: <<status>> once main has returned
    fenv,       \* a run over files: the script and the files it is given
    fpc,        \* a run over files: the run's position
    fresults,   \* a run over files: what each file handled so far contributed
    kenv,       \* a run over resource types: the script and kubectl's answers
    kpc,        \* a run over resource types: the run's position
    kfetched,   \* a run over resource types: the types fetched so far, in order
    kissues,    \* a run over resource types: what each fetched type contributed
    uenv,       \* a script's main: the script and its command line
    upc,        \* a script's main: main's position
    uexit,      \* a script's main: <<status>> once the process has one
    xenv,       \* export_cluster_state: the command line and kubectl's answers
    xpc,        \* export_cluster_state: main's position
    xfiles,     \* export_cluster_state: the files of the output directory
    xexit,      \* export_cluster_state: <<status>> once main has returned
    jout,       \* run_kubectl_json: what the kubectl process did
    jpc,        \* run_kubectl_json: "called" once both implementations ran
    jlists,     \* run_kubectl_json: what each implementation returned
    penv,       \* bd_generate_markdown_plan: the command line and the input
    ppc,        \* bd_generate_markdown_plan: main's position
    pfile,      \* bd_generate_markdown_plan: the output file (<<>>: not there)
    pexit,      \* bd_generate_markdown_plan: <<status>> once the process has one
    cin,        \* clean_resource: the arguments of the call
    cpc,        \* clean_resource: the call's position
    cout,       \* clean_resource: <<result>> once it returned
    carg,       \* clean_resource: the caller's resource object, as it is now
    xstats,     \* export_cluster_state: stats
    xtwin,      \* export_cluster_state: the same run over secrets with other data values
    lcontent,   \* lint_content: the lines of the content and what the parser makes of it
    lpc,        \* lint_content: the call's position
    lissues,    \* lint_content: result.issues
    kcpin,      \* check_kubeadm_security: the KubeadmControlPlane handed to it
    kcppc,      \* check_kubeadm_security: the call's position
    kcpadded,   \* check_kubeadm_security: <<result>>, the findings it added
    renv,       \* run_coderabbit: the command line and what the environment holds
    rpc,        \* run_coderabbit: the script's position
    rchild,     \* run_coderabbit: the coderabbit process
    rstdout,    \* run_coderabbit: <<stdout>> once communicate() returned it
    rfile,      \* run_coderabbit: the write_text calls that wrote, in order
    rtimedout,  \* run_coderabbit: communicate(timeout) raised TimeoutExpired
    rexit,      \* run_coderabbit: <<status>> once the script has one
    venv,       \* compare_versions: the two version arguments
    vpc,        \* compare_versions: the call's position
    vcomp       \* compare_versions: <<comparison>> once it returned

docVars == <<doc, path, op, result>>
reportVars == <<findings, violations>>
auditVars == <<cluster, apc, added>>
contractVars == <<crd, cop>>
healthVars == <<henv, hpc, issues, hexit>>
mainVars == <<menv, mpc, results, total_errors, total_warnings, mexit>>
fileVars == <<fenv, fpc, fresults>>
fetchVars == <<kenv, kpc, kfetched, kissues>>
usageVars == <<uenv, upc, uexit>>
exportRunVars == <<xenv, xpc, xfiles, xexit, xstats, xtwin>>
cleanVars == <<cin, cpc, cout, carg>>
exportVars == <<exportRunVars, cleanVars>>
kubectlVars == <<jout, jpc, jlists>>
planVars == <<penv, ppc, pfile, pexit>>
analysisVars == <<docVars, reportVars, auditVars, contractVars, healthVars, mainVars>>
runVars == <<fileVars, fetchVars, usageVars, exportVars, kubectlVars, planVars>>
lintVars == <<lcontent, lpc, lissues>>
kubeadmVars == <<kcpin, kcppc, kcpadded>>
coderabbitVars == <<renv, rpc, rchild, rstdout, rfile, rtimedout, rexit>>
versionVars == <<venv, vpc, vcomp>>
toolVars == <<lintVars, kubeadmVars, coderabbitVars, versionVars>>
vars == <<analysisVars, runVars, toolVars>>

(***************************************************************************)
(* Python values.                                                          *)
(***************************************************************************)
Null == [t |-> "null"]
Bool(b) == [t |-> "bool", b |-> b]
Str(s) == [t |-> "str", s |-> s]
Num(n) == [t |-> "num", n |-> n]
List(q) == [t |-> "list", q |-> q]
Map(m) == [t |-> "map", m |-> m]

EmptyMap == Map(<<>>)

\* bool(v): None, False, 0, "", [] and {} are falsy.
Truthy(v) ==
    CASE v.t = "null" -> FALSE
      [] v.t = "bool" -> v.b
      [] v.t = "str" -> v.s # ""
      [] v.t = "num" -> v.n # 0
      [] v.t = "list" -> Len(v.q) > 0
      [] v.t = "map" -> DOMAIN v.m # {}

\* isinstance(v, dict)
IsDict(v) == v.t = "map"

\* hash(v) is defined: lists and dicts are unhashable (TypeError as a dict key probe).
Hashable(v) == v.t \notin {"list", "map"}

\* v.get exists only on a dict (AttributeError otherwise).
HasGet(v) == v.t = "map"

\* d.get(k, dflt) on a dict d.
Get(d, k, dflt) == IF k \in DOMAIN d.m THEN d.m[k] ELSE dflt

\* `k in v` is defined for containers and strings (TypeError for None, bool, numbers).
CanContain(v) == v.t \in {"map", "list", "str"}

\* What the strings of the model contain: str.startswith and substring tests are
\* computed from these facts (TLC has no character operations).
StringFacts ==
    ("cluster.x-k8s.io/v1beta1" :>
        [prefixes |-> {"cluster.x-k8s.io"}, substrings |-> {"v1beta1"}, alpha |-> TRUE])
 @@ ("cluster.x-k8s.io/v1alpha3" :>
        [prefixes |-> {"cluster.x-k8s.io"}, substrings |-> {"v1alpha"}, alpha |-> TRUE])
 @@ ("v1" :> [prefixes |-> {}, substrings |-> {}, alpha |-> TRUE])
 @@ ("Node,RBAC" :> [prefixes |-> {"Node"}, substrings |-> {"Node", "RBAC"}, alpha |-> TRUE])
 @@ ("10s" :> [prefixes |-> {}, substrings |-> {}, alpha |-> TRUE])
 @@ ("10" :> [prefixes |-> {}, substrings |-> {}, alpha |-> FALSE])
 @@ ("MachineList" :> [prefixes |-> {"Machine"}, substrings |-> {"Machine", "List"}, alpha |-> TRUE])
 @@ ("ClusterList" :> [prefixes |-> {"Cluster"}, substrings |-> {"Cluster", "List"}, alpha |-> TRUE])
 @@ ("kubectl.kubernetes.io/last-applied-configuration" :>
        [prefixes |-> {"kubectl.kubernetes.io/", "kubectl.kubernetes.io"},
         substrings |-> {}, alpha |-> TRUE])
 @@ ("deployment.kubernetes.io/revision" :>
        [prefixes |-> {"deployment.kubernetes.io/", "deployment.kubernetes.io"},
         substrings |-> {}, alpha |-> TRUE])
 @@ ("cluster.x-k8s.io/paused" :>
        [prefixes |-> {"cluster.x-k8s.io", "cluster.x-k8s.io/"}, substrings |-> {}, alpha |-> TRUE])

\* s.startswith(p)
StartsWith(s, p) ==
    \/ p = ""
    \/ s = p
    \/ s \in DOMAIN StringFacts /\ p \in StringFacts[s].prefixes

\* `sub in s` for strings
StrContains(sub, s) ==
    \/ sub = ""
    \/ sub = s
    \/ s \in DOMAIN StringFacts /\ sub \in StringFacts[s].substrings

\* any(c.isalpha() for c in s)
HasAlpha(s) == IF s \in DOMAIN StringFacts THEN StringFacts[s].alpha ELSE s # ""

\* `k in v` for a string k, where CanContain(v).
In(k, v) ==
    CASE v.t = "map" -> k \in DOMAIN v.m
      [] v.t = "list" -> \E i \in 1..Len(v.q) : v.q[i] = Str(k)
      [] v.t = "str" -> StrContains(k, v.s)
      [] OTHER -> FALSE

(***************************************************************************)
(* Results of a call: it returns a value, or an exception leaves it.       *)
(***************************************************************************)
Ok(out) == [raised |-> FALSE, out |-> out]
Raise == [raised |-> TRUE, out |-> <<>>]
NoResult == [raised |-> FALSE, out |-> <<>>]

\* errors.extend(a); errors.extend(b) where either call may raise
Then(a, b) ==
    IF a.raised THEN Raise
    ELSE IF b.raised THEN Raise
    ELSE Ok(a.out \o b.out)

\* the concatenation of a sequence of finding lists
RECURSIVE Flatten(_)
Flatten(ss) == IF ss = <<>> THEN <<>> ELSE Head(ss) \o Flatten(Tail(ss))

CountIf(s, P(_)) == Cardinality({i \in 1..Len(s) : P(s[i])})

(***************************************************************************)
(* validate_manifests.py                                                   *)
(***************************************************************************)
CAPI_RESOURCES ==
    [Cluster |-> "cluster.x-k8s.io",
     Machine |-> "cluster.x-k8s.io",
     MachineSet |-> "cluster.x-k8s.io",
     MachineDeployment |-> "cluster.x-k8s.io",
     MachinePool |-> "cluster.x-k8s.io",
     MachineHealthCheck |-> "cluster.x-k8s.io",
     ClusterClass |-> "cluster.x-k8s.io",
     ClusterResourceSet |-> "addons.cluster.x-k8s.io",
     ClusterResourceSetBinding |-> "addons.cluster.x-k8s.io",
     KubeadmConfig |-> "bootstrap.cluster.x-k8s.io",
     KubeadmConfigTemplate |-> "bootstrap.cluster.x-k8s.io",
     KubeadmControlPlane |-> "controlplane.cluster.x-k8s.io",
     KubeadmControlPlaneTemplate |-> "controlplane.cluster.x-k8s.io",
     IPAddress |-> "ipam.cluster.x-k8s.io",
     IPAddressClaim |-> "ipam.cluster.x-k8s.io",
     ExtensionConfig |-> "runtime.cluster.x-k8s.io"]

\* REQUIRED_FIELDS[kind]["spec"]
REQUIRED_FIELDS ==
    [Cluster |-> <<"infrastructureRef">>,
     Machine |-> <<"clusterName", "bootstrap", "infrastructureRef">>,
     MachineDeployment |-> <<"clusterName", "selector", "template">>,
     MachineSet |-> <<"clusterName", "selector", "template">>,
     MachineHealthCheck |-> <<"clusterName", "selector">>,
     ClusterClass |-> <<"infrastructure", "controlPlane", "workers">>,
     KubeadmConfig |-> <<>>,
     KubeadmControlPlane |-> <<"version">>]

ValidationError(p, message, severity) ==
    [path |-> p, message |-> message, severity |-> severity]

\* `kind in TABLE` for a table keyed by kind names (kind is hashable)
KindIn(kind, table) == kind.t = "str" /\ kind.s \in DOMAIN table

validate_api_version(d) ==
    LET api_version == Get(d, "apiVersion", Str(""))
        kind == Get(d, "kind", Str(""))
    IN  IF ~Truthy(api_version)
        THEN Ok(<<ValidationError(<<"apiVersion">>, <<"Missing apiVersion field">>, "error")>>)
        ELSE IF ~Hashable(kind) THEN Raise
        ELSE IF KindIn(kind, CAPI_RESOURCES) /\ api_version.t # "str" THEN Raise
        ELSE IF ~CanContain(api_version) THEN Raise
        ELSE Ok(
            (IF KindIn(kind, CAPI_RESOURCES)
                   /\ ~StartsWith(api_version.s, CAPI_RESOURCES[kind.s])
             THEN <<ValidationError(<<"apiVersion">>,
                        <<"Expected group", CAPI_RESOURCES[kind.s]>>, "warning")>>
             ELSE <<>>)
            \o
            (IF In("v1alpha", api_version)
             THEN <<ValidationError(<<"apiVersion">>,
                        <<"v1alpha API versions are deprecated">>, "warning")>>
             ELSE <<>>))

MachineKinds == {"Machine", "MachineSet", "MachineDeployment", "MachinePool"}

validate_metadata(d) ==
    LET metadata == Get(d, "metadata", EmptyMap)
        kind == Get(d, "kind", Str(""))
    IN  IF ~Truthy(metadata)
        THEN Ok(<<ValidationError(<<"metadata">>, <<"Missing metadata field">>, "error")>>)
        ELSE IF ~HasGet(metadata) THEN Raise
        ELSE
        LET nameErr ==
                IF ~Truthy(Get(metadata, "name", Null))
                THEN <<ValidationError(<<"metadata", "name">>, <<"Missing name field">>, "error")>>
                ELSE <<>>
            labels == Get(metadata, "labels", EmptyMap)
            spec == Get(d, "spec", EmptyMap)
        IN  IF ~(kind.t = "str" /\ kind.s \in MachineKinds) THEN Ok(nameErr)
            ELSE IF ~CanContain(labels) THEN Raise
            ELSE IF In("cluster.x-k8s.io/cluster-name", labels) THEN Ok(nameErr)
            ELSE IF ~HasGet(spec) THEN Raise
            ELSE IF ~Truthy(Get(spec, "clusterName", Str("")))
            THEN Ok(nameErr \o <<ValidationError(<<"metadata", "labels">>,
                        <<"Missing cluster.x-k8s.io/cluster-name label">>, "warning")>>)
            ELSE Ok(nameErr)

\* A variant of _validate_cluster_spec that also demands a name in
\* controlPlaneRef, as it does for infrastructureRef.
ClusterSpecAlsoNeedsControlPlaneName(spec) ==
    IF ~HasGet(spec) THEN Raise
    ELSE
    LET cp_ref == Get(spec, "controlPlaneRef", EmptyMap)
    IN  IF ~Truthy(cp_ref) THEN Ok(<<>>)
        ELSE IF ~HasGet(cp_ref) THEN Raise
        ELSE Ok(
            IF ~Truthy(Get(cp_ref, "name", Null))
            THEN <<ValidationError(<<"spec", "controlPlaneRef", "name">>,
                       <<"Missing name in controlPlaneRef">>, "error")>>
            ELSE <<>>)

_validate_cluster_spec(spec) ==
    IF ~HasGet(spec) THEN Raise
    ELSE
    LET infra_ref == Get(spec, "infrastructureRef", EmptyMap)
        cp_ref == Get(spec, "controlPlaneRef", EmptyMap)
        infra ==
            IF ~Truthy(infra_ref) THEN Ok(<<>>)
            ELSE IF ~HasGet(infra_ref) THEN Raise
            ELSE Ok(
                (IF ~Truthy(Get(infra_ref, "kind", Null))
                 THEN <<ValidationError(<<"spec", "infrastructureRef", "kind">>,
                            <<"Missing kind in infrastructureRef">>, "error")>>
                 ELSE <<>>)
                \o
                (IF ~Truthy(Get(infra_ref, "name", Null))
                 THEN <<ValidationError(<<"spec", "infrastructureRef", "name">>,
                            <<"Missing name in infrastructureRef">>, "error")>>
                 ELSE <<>>))
        cp ==
            IF ~Truthy(cp_ref) THEN Ok(<<>>)
            ELSE IF ~HasGet(cp_ref) THEN Raise
            ELSE Ok(
                IF ~Truthy(Get(cp_ref, "kind", Null))
                THEN <<ValidationError(<<"spec", "controlPlaneRef", "kind">>,
                           <<"Missing kind in controlPlaneRef">>, "error")>>
                ELSE <<>>)
    IN  Then(infra, cp)

_validate_machine_spec(spec) ==
    IF ~HasGet(spec) THEN Raise
    ELSE
    LET bootstrap == Get(spec, "bootstrap", EmptyMap)
    IN  IF ~Truthy(bootstrap) THEN Ok(<<>>)
        ELSE IF ~HasGet(bootstrap) THEN Raise
        ELSE Ok(
            IF ~Truthy(Get(bootstrap, "configRef", Null))
                  /\ ~Truthy(Get(bootstrap, "dataSecretName", Null))
            THEN <<ValidationError(<<"spec", "bootstrap">>,
                       <<"Must have either configRef or dataSecretName">>, "error")>>
            ELSE <<>>)

_validate_machine_deployment_spec(spec) ==
    IF ~HasGet(spec) THEN Raise
    ELSE
    LET template == Get(spec, "template", EmptyMap)
    IN  IF ~Truthy(template) THEN Ok(<<>>)
        ELSE IF ~HasGet(template) THEN Raise
        ELSE
        LET template_spec == Get(template, "spec", EmptyMap)
        IN  IF ~HasGet(template_spec) THEN Raise
            ELSE Ok(
                (IF ~Truthy(Get(template_spec, "bootstrap", Null))
                 THEN <<ValidationError(<<"spec", "template", "spec", "bootstrap">>,
                            <<"Missing bootstrap in template">>, "error")>>
                 ELSE <<>>)
                \o
                (IF ~Truthy(Get(template_spec, "infrastructureRef", Null))
                 THEN <<ValidationError(<<"spec", "template", "spec", "infrastructureRef">>,
                            <<"Missing infrastructureRef in template">>, "error")>>
                 ELSE <<>>))

_validate_cluster_class_spec(spec) ==
    IF ~HasGet(spec) THEN Raise
    ELSE
    LET infra == Get(spec, "infrastructure", EmptyMap)
        cp == Get(spec, "controlPlane", EmptyMap)
        infraErr ==
            IF ~Truthy(infra) THEN Ok(<<>>)
            ELSE IF ~HasGet(infra) THEN Raise
            ELSE Ok(IF ~Truthy(Get(infra, "ref", Null))
                    THEN <<ValidationError(<<"spec", "infrastructure", "ref">>,
                               <<"Missing ref in infrastructure">>, "error")>>
                    ELSE <<>>)
        cpErr ==
            IF ~Truthy(cp) THEN Ok(<<>>)
            ELSE IF ~HasGet(cp) THEN Raise
            ELSE Ok(IF ~Truthy(Get(cp, "ref", Null))
                    THEN <<ValidationError(<<"spec", "controlPlane", "ref">>,
                               <<"Missing ref in controlPlane">>, "error")>>
                    ELSE <<>>)
    IN  Then(infraErr, cpErr)

\* A variant of the required-field loop that tests `not spec.get(field)`
\* where the code tests `field not in spec`.
RequiredFieldsByTruthiness(kind, spec) ==
    LET required == REQUIRED_FIELDS[kind.s]
    IN  IF required # <<>> /\ ~HasGet(spec) THEN Raise
        ELSE Ok(Flatten(
            [i \in 1..Len(required) |->
                IF ~Truthy(Get(spec, required[i], Null))
                THEN <<ValidationError(<<"spec", required[i]>>,
                           <<"Missing required field", required[i]>>, "error")>>
                ELSE <<>>]))

\* the "Check required fields" loop of validate_spec
RequiredFieldErrors(kind, spec) ==
    LET required == REQUIRED_FIELDS[kind.s]
    IN  IF required # <<>> /\ ~CanContain(spec) THEN Raise
        ELSE Ok(Flatten(
            [i \in 1..Len(required) |->
                IF ~In(required[i], spec)
                THEN <<ValidationError(<<"spec", required[i]>>,
                           <<"Missing required field", required[i]>>, "error")>>
                ELSE <<>>]))

\* the "Kind-specific validations" chain of validate_spec
KindSpecificErrors(kind, spec) ==
    IF kind = Str("Cluster") THEN _validate_cluster_spec(spec)
    ELSE IF kind = Str("Machine") THEN _validate_machine_spec(spec)
    ELSE IF kind = Str("MachineDeployment") THEN _validate_machine_deployment_spec(spec)
    ELSE IF kind = Str("ClusterClass") THEN _validate_cluster_class_spec(spec)
    ELSE Ok(<<>>)

validate_spec(d) ==
    LET kind == Get(d, "kind", Str(""))
        spec == Get(d, "spec", EmptyMap)
    IN  IF ~Truthy(spec)
        THEN Ok(<<ValidationError(<<"spec">>, <<"Missing spec field">>, "error")>>)
        ELSE IF ~Hashable(kind) THEN Raise
        ELSE Then(IF KindIn(kind, REQUIRED_FIELDS)
                  THEN RequiredFieldErrors(kind, spec)
                  ELSE Ok(<<>>),
                  KindSpecificErrors(kind, spec))

validate_document(d) ==
    IF ~IsDict(d)
    THEN Ok(<<ValidationError(<<"<file>">>, <<"Document is not a valid YAML mapping">>, "error")>>)
    ELSE
    LET kind == Get(d, "kind", Str(""))
        kindErr ==
            IF ~Truthy(kind)
            THEN <<ValidationError(<<"kind">>, <<"Missing kind field">>, "error")>>
            ELSE <<>>
    IN  Then(Then(Then(Ok(kindErr), validate_api_version(d)),
                  validate_metadata(d)),
             validate_spec(d))

(***************************************************************************)
(* lint_cluster_templates.py                                               *)
(***************************************************************************)
\* CAPI_API_VERSIONS: version -> replacement when deprecated, "" when current
CAPI_API_VERSIONS ==
    ("cluster.x-k8s.io/v1alpha3" :> [deprecated |-> TRUE, replacement |-> "v1beta1"])
 @@ ("cluster.x-k8s.io/v1alpha4" :> [deprecated |-> TRUE, replacement |-> "v1beta1"])
 @@ ("cluster.x-k8s.io/v1beta1" :> [deprecated |-> FALSE, replacement |-> ""])

\* CAPI_KINDS[kind]["required_spec"]
CAPI_KINDS ==
    [Cluster |-> <<"infrastructureRef", "controlPlaneRef">>,
     Machine |-> <<"clusterName", "bootstrap", "infrastructureRef">>,
     MachineDeployment |-> <<"clusterName", "template">>,
     MachineSet |-> <<"clusterName", "template">>,
     ClusterClass |-> <<"infrastructure", "controlPlane">>,
     MachineHealthCheck |-> <<"clusterName", "selector", "unhealthyConditions">>,
     MachinePool |-> <<"clusterName", "template">>]

\* DEPRECATED_FIELDS of the linter: kind -> <<[path, since, message]>>, in table order
LINT_DEPRECATED_FIELDS ==
    [Cluster |-> <<[path |-> <<"spec", "paused">>, since |-> "v1.4.0",
                    message |-> "Use spec.topology.controlPlane/workers for managed clusters"]>>,
     Machine |-> <<[path |-> <<"spec", "version">>, since |-> "v1.5.0",
                    message |-> "Version is now inherited from control plane or topology"]>>]

LintIssue(severity, message, suggestion) ==
    [severity |-> severity, message |-> message, suggestion |-> suggestion]

\* the navigation loop of the deprecated-field check: found iff every part is a
\* key of a dict on the way
RECURSIVE LintFound(_, _)
LintFound(current, parts) ==
    IF parts = <<>> THEN TRUE
    ELSE IF IsDict(current) /\ Head(parts) \in DOMAIN current.m
    THEN LintFound(current.m[Head(parts)], Tail(parts))
    ELSE FALSE

\* "Check required top-level fields" (doc is a dict)
LintTopLevel(d) ==
    LET apiErr == IF ~In("apiVersion", d)
                  THEN <<LintIssue("error", <<"Missing required field", "apiVersion">>, "")>>
                  ELSE <<>>
        kindErr == IF ~In("kind", d)
                   THEN <<LintIssue("error", <<"Missing required field", "kind">>, "")>>
                   ELSE <<>>
        metadata == Get(d, "metadata", EmptyMap)
    IN  IF ~In("metadata", d)
        THEN Ok(apiErr \o kindErr
                \o <<LintIssue("error", <<"Missing required field", "metadata">>, "")>>)
        ELSE IF ~CanContain(metadata) THEN Raise
        ELSE IF ~In("name", metadata)
        THEN Ok(apiErr \o kindErr
                \o <<LintIssue("error", <<"Missing required field", "metadata.name">>, "")>>)
        ELSE Ok(apiErr \o kindErr)

\* "Check API version"
LintApiVersion(d) ==
    LET api_version == Get(d, "apiVersion", Str(""))
    IN  IF ~Hashable(api_version) THEN Raise
        ELSE IF KindIn(api_version, CAPI_API_VERSIONS)
                  /\ CAPI_API_VERSIONS[api_version.s].deprecated
        THEN Ok(<<LintIssue("warning", <<"Deprecated API version", api_version.s>>,
                            CAPI_API_VERSIONS[api_version.s].replacement)>>)
        ELSE Ok(<<>>)

\* one pass of the required_spec loop
LintRequiredField(kind, spec, required_field) ==
    IF kind = Str("Cluster") /\ ~CanContain(spec) THEN Raise
    ELSE IF kind = Str("Cluster") /\ In("topology", spec)
              /\ required_field \in {"infrastructureRef", "controlPlaneRef"}
    THEN Ok(<<>>)
    ELSE IF ~CanContain(spec) THEN Raise
    ELSE IF ~In(required_field, spec)
    THEN Ok(<<LintIssue("error",
                  <<"Missing required spec field for", kind.s, required_field>>, "")>>)
    ELSE Ok(<<>>)

RECURSIVE LintRequiredLoop(_, _, _)
LintRequiredLoop(kind, spec, fields) ==
    IF fields = <<>> THEN Ok(<<>>)
    ELSE Then(LintRequiredField(kind, spec, Head(fields)),
              LintRequiredLoop(kind, spec, Tail(fields)))

\* "Check kind-specific requirements"
LintKindRequirements(d) ==
    LET kind == Get(d, "kind", Str(""))
        spec == Get(d, "spec", EmptyMap)
    IN  IF ~Hashable(kind) THEN Raise
        ELSE IF KindIn(kind, CAPI_KINDS)
        THEN LintRequiredLoop(kind, spec, CAPI_KINDS[kind.s])
        ELSE Ok(<<>>)

\* "Check deprecated fields"
LintDeprecated(d) ==
    LET kind == Get(d, "kind", Str(""))
    IN  IF ~Hashable(kind) THEN Raise
        ELSE IF KindIn(kind, LINT_DEPRECATED_FIELDS)
        THEN LET table == LINT_DEPRECATED_FIELDS[kind.s]
             IN  Ok(Flatten(
                    [i \in 1..Len(table) |->
                        IF LintFound(d, table[i].path)
                        THEN <<LintIssue("warning",
                                   <<"Deprecated field">> \o table[i].path \o <<table[i].since>>,
                                   table[i].message)>>
                        ELSE <<>>]))
        ELSE Ok(<<>>)

lint_document(d) ==
    Then(Then(Then(LintTopLevel(d), LintApiVersion(d)),
              LintKindRequirements(d)),
         LintDeprecated(d))

(***************************************************************************)
(* migration_checker.py                                                    *)
(***************************************************************************)
\* DEPRECATED_FIELDS of the migration checker: kind -> <<[field, reason, action]>>
DEPRECATED_FIELDS ==
    [Cluster |-> <<
        [field |-> <<"spec", "topology", "rolloutAfter">>,
         reason |-> "Never implemented, removed in v1beta2",
         action |-> "Remove this field"],
        [field |-> <<"spec", "topology", "class">>,
         reason |-> "Renamed to spec.topology.classRef.name",
         action |-> "Move to spec.topology.classRef.name"],
        [field |-> <<"spec", "topology", "classNamespace">>,
         reason |-> "Renamed to spec.topology.classRef.namespace",
         action |-> "Move to spec.topology.classRef.namespace"],
        [field |-> <<"status", "failureReason">>,
         reason |-> "Moved to status.deprecated.v1beta1.failureReason",
         action |-> "Update status handling code"],
        [field |-> <<"status", "failureMessage">>,
         reason |-> "Moved to status.deprecated.v1beta1.failureMessage",
         action |-> "Update status handling code"]>>,
     Machine |-> <<
        [field |-> <<"spec", "nodeDeletionTimeout">>,
         reason |-> "Renamed to spec.deletion.nodeDeletionTimeoutSeconds",
         action |-> "Move to spec.deletion.nodeDeletionTimeoutSeconds (as int32)"],
        [field |-> <<"spec", "nodeDrainTimeout">>,
         reason |-> "Renamed to spec.deletion.nodeDrainTimeoutSeconds",
         action |-> "Move to spec.deletion.nodeDrainTimeoutSeconds (as int32)"],
        [field |-> <<"spec", "nodeVolumeDetachTimeout">>,
         reason |-> "Renamed to spec.deletion.nodeVolumeDetachTimeoutSeconds",
         action |-> "Move to spec.deletion.nodeVolumeDetachTimeoutSeconds (as int32)"]>>,
     MachineDeployment |-> <<
        [field |-> <<"spec", "progressDeadlineSeconds">>,
         reason |-> "Deprecated since v1.9, removed in v1beta2",
         action |-> "Remove this field"],
        [field |-> <<"spec", "revisionHistoryLimit">>,
         reason |-> "Removed, controller now cleans up all MachineSets without replicas",
         action |-> "Remove this field"],
        [field |-> <<"spec", "strategy", "rollingUpdate", "deletePolicy">>,
         reason |-> "Renamed to spec.deletion.order",
         action |-> "Move to spec.deletion.order"],
        [field |-> <<"spec", "machineNamingStrategy">>,
         reason |-> "Renamed to spec.machineNaming",
         action |-> "Rename to spec.machineNaming"]>>,
     MachineSet |-> <<
        [field |-> <<"spec", "deletePolicy">>,
         reason |-> "Renamed to spec.deletion.order",
         action |-> "Move to spec.deletion.order"],
        [field |-> <<"spec", "machineNamingStrategy">>,
         reason |-> "Renamed to spec.machineNaming",
         action |-> "Rename to spec.machineNaming"]>>,
     KubeadmControlPlane |-> <<
        [field |-> <<"spec", "kubeadmConfigSpec", "clusterConfiguration", "clusterName">>,
         reason |-> "Inferred from top level, removed to avoid confusion",
         action |-> "Remove this field"]>>]

OBJECT_REF_FIELDS ==
    << <<"spec", "infrastructureRef">>,
       <<"spec", "controlPlaneRef">>,
       <<"spec", "bootstrap", "configRef">>,
       <<"spec", "template", "spec", "infrastructureRef">>,
       <<"spec", "template", "spec", "bootstrap", "configRef">> >>

\* the (old_path, new_path) pairs of check_duration_fields, old paths only
DURATION_FIELDS ==
    << <<"spec", "nodeDeletionTimeout">>,
       <<"spec", "nodeDrainTimeout">>,
       <<"spec", "nodeVolumeDetachTimeout">>,
       <<"spec", "template", "spec", "nodeDeletionTimeout">>,
       <<"spec", "topology", "controlPlane", "nodeDeletionTimeout">> >>

MigrationIssue(field, reason, action, severity) ==
    [field |-> field, reason |-> reason, action |-> action, severity |-> severity]

\* get_nested(data, path): None both when a key is missing and when its value is None
RECURSIVE get_nested(_, _)
get_nested(current, keys) ==
    IF keys = <<>> THEN current
    ELSE IF IsDict(current)
    THEN get_nested(Get(current, Head(keys), Null), Tail(keys))
    ELSE Null

check_deprecated_fields(d) ==
    LET kind == Get(d, "kind", Str(""))
    IN  IF ~Hashable(kind) THEN Raise
        ELSE IF ~KindIn(kind, DEPRECATED_FIELDS) THEN Ok(<<>>)
        ELSE LET table == DEPRECATED_FIELDS[kind.s]
             IN  Ok(Flatten(
                    [i \in 1..Len(table) |->
                        IF get_nested(d, table[i].field) # Null
                        THEN <<MigrationIssue(table[i].field, table[i].reason,
                                              table[i].action, "warning")>>
                        ELSE <<>>]))

check_object_references(d) ==
    Ok(Flatten(
        [i \in 1..Len(OBJECT_REF_FIELDS) |->
            LET ref_path == OBJECT_REF_FIELDS[i]
                ref == get_nested(d, ref_path)
            IN  IF Truthy(ref) /\ IsDict(ref)
                THEN (IF In("apiVersion", ref) /\ ~In("apiGroup", ref)
                      THEN <<MigrationIssue(ref_path \o <<"apiVersion">>,
                                 "v1beta2 uses apiGroup instead of apiVersion in object references",
                                 "Replace apiVersion with apiGroup", "info")>>
                      ELSE <<>>)
                     \o
                     (IF In("namespace", ref)
                      THEN <<MigrationIssue(ref_path \o <<"namespace">>,
                                 "namespace field removed from object references in v1beta2",
                                 "Remove namespace field from object reference", "warning")>>
                      ELSE <<>>)
                ELSE <<>>]))

\* A variant of the duration check that reports every value that is set.
DurationOfAnyType(d) ==
    Ok(Flatten(
        [i \in 1..Len(DURATION_FIELDS) |->
            IF get_nested(d, DURATION_FIELDS[i]) # Null
            THEN <<MigrationIssue(DURATION_FIELDS[i],
                       "Duration fields changed from string to int32 seconds",
                       "Convert to integer seconds and rename", "warning")>>
            ELSE <<>>]))

check_duration_fields(d) ==
    Ok(Flatten(
        [i \in 1..Len(DURATION_FIELDS) |->
            LET value == get_nested(d, DURATION_FIELDS[i])
            IN  IF value # Null /\ value.t = "str" /\ HasAlpha(value.s)
                THEN <<MigrationIssue(DURATION_FIELDS[i],
                           "Duration fields changed from string to int32 seconds",
                           "Convert to integer seconds and rename", "warning")>>
                ELSE <<>>]))

check_api_version(d) ==
    LET api_version == Get(d, "apiVersion", Str(""))
    IN  IF ~CanContain(api_version) THEN Raise
        ELSE IF In("v1beta1", api_version)
        THEN Ok(<<MigrationIssue(<<"apiVersion">>,
                      "v1beta1 is deprecated, will be removed in August 2026",
                      "Migrate to v1beta2 API version", "warning")>>)
        ELSE IF In("v1alpha", api_version)
        THEN Ok(<<MigrationIssue(<<"apiVersion">>, "v1alpha versions are deprecated",
                      "Migrate to v1beta2 API version", "warning")>>)
        ELSE Ok(<<>>)

analyze_document(d) ==
    Then(Then(Then(check_api_version(d), check_deprecated_fields(d)),
              check_object_references(d)),
         check_duration_fields(d))


(***************************************************************************)
(* audit_security.py                                                       *)
(***************************************************************************)
Finding(severity, category, resource, message, recommendation) ==
    [severity |-> severity, category |-> category, resource |-> resource,
     message |-> message, recommendation |-> recommendation]

\* AuditReport.add on the findings list fs
\* A variant of add that puts the new finding first.
AddFirst(fs, severity, category, resource, message, recommendation) ==
    <<Finding(severity, category, resource, message, recommendation)>> \o fs

AuditReport_add(fs, severity, category, resource, message, recommendation) ==
    Append(fs, Finding(severity, category, resource, message, recommendation))

high_count(fs) == CountIf(fs, LAMBDA f : f.severity = "high")
medium_count(fs) == CountIf(fs, LAMBDA f : f.severity = "medium")
low_count(fs) == CountIf(fs, LAMBDA f : f.severity = "low")

\* f"Cluster/{namespace}/{name}"; raises when metadata is not a mapping
ClusterResource(c) ==
    LET metadata == Get(c, "metadata", EmptyMap)
    IN  IF ~HasGet(metadata) THEN Raise
        ELSE Ok(<<"Cluster", Get(metadata, "namespace", Str("default")),
                  Get(metadata, "name", Str("unknown"))>>)

\* spec.get("topology", {}).get(key, dflt); raises when spec or topology is not a mapping
TopologyGet(c, key, dflt) ==
    LET spec == Get(c, "spec", EmptyMap)
    IN  IF ~HasGet(spec) THEN Raise
        ELSE LET topology == Get(spec, "topology", EmptyMap)
             IN  IF ~HasGet(topology) THEN Raise
                 ELSE Ok(<<Get(topology, key, dflt)>>)

\* the index of the first variable named podSecurityStandard, 0 when there is none
FirstPssVariable(variables) ==
    LET hits == {i \in 1..Len(variables.q) :
                    Get(variables.q[i], "name", Null) = Str("podSecurityStandard")}
    IN  IF hits = {} THEN 0 ELSE CHOOSE i \in hits : \A j \in hits : i <= j

\* `for var in variables: var.get(...)` can run: a list of mappings
IsVariableList(variables) ==
    /\ variables.t = "list"
    /\ \A i \in 1..Len(variables.q) : HasGet(variables.q[i])

\* The findings check_pss_configuration adds to the report, in order.
check_pss_configuration(c) ==
    LET vars_ == TopologyGet(c, "variables", List(<<>>))
        res == ClusterResource(c)
    IN  IF vars_.raised \/ res.raised THEN Raise
        ELSE IF ~IsVariableList(vars_.out[1]) THEN Raise
        ELSE
        LET variables == vars_.out[1]
            resource == res.out
            k == FirstPssVariable(variables)
            pss_var == IF k = 0 THEN Null ELSE Get(variables.q[k], "value", EmptyMap)
        IN  IF ~Truthy(pss_var)
            THEN Ok(AuditReport_add(<<>>, "medium", "Pod Security", resource,
                        [text |-> "No podSecurityStandard variable configured", arg |-> Null],
                        "Set podSecurityStandard variable with enforce level"))
            ELSE IF ~HasGet(pss_var) THEN Raise
            ELSE
            LET enforce == Get(pss_var, "enforce", Str(""))
                audit == Get(pss_var, "audit", Str(""))
                afterEnforce ==
                    IF ~Truthy(enforce) \/ enforce = Str("privileged")
                    THEN AuditReport_add(<<>>, "high", "Pod Security", resource,
                            [text |-> "PSS enforce level is (should be baseline or restricted)",
                             arg |-> IF Truthy(enforce) THEN enforce ELSE Str("not set")],
                            "Set podSecurityStandard.enforce to 'baseline' or 'restricted'")
                    ELSE IF enforce = Str("baseline")
                    THEN AuditReport_add(<<>>, "low", "Pod Security", resource,
                            [text |-> "PSS enforce level is 'baseline' (consider 'restricted' for production)",
                             arg |-> Null],
                            "Consider 'restricted' level for higher security")
                    ELSE <<>>
            IN  Ok(IF ~Truthy(audit)
                   THEN AuditReport_add(afterEnforce, "low", "Pod Security", resource,
                            [text |-> "PSS audit level not configured", arg |-> Null],
                            "Set podSecurityStandard.audit for violation logging")
                   ELSE afterEnforce)

CniVariableNames == {"cni", "networkPlugin", "calico", "cilium"}

\* The findings check_network_security adds to the report, in order.
check_network_security(c) ==
    LET res == ClusterResource(c)
        spec == Get(c, "spec", EmptyMap)
    IN  IF res.raised \/ ~HasGet(spec) THEN Raise
        ELSE
        LET resource == res.out
            network == Get(spec, "clusterNetwork", EmptyMap)
            afterNetwork ==
                IF ~Truthy(network)
                THEN AuditReport_add(<<>>, "info", "Network", resource,
                        [text |-> "No explicit clusterNetwork configuration", arg |-> Null],
                        "Define clusterNetwork with appropriate CIDR ranges")
                ELSE <<>>
            vars_ == TopologyGet(c, "variables", List(<<>>))
        IN  IF vars_.raised
            THEN [raised |-> TRUE, out |-> afterNetwork]
            ELSE IF ~IsVariableList(vars_.out[1])
            THEN [raised |-> TRUE, out |-> afterNetwork]
            ELSE
            LET variables == vars_.out[1]
                cni_configured ==
                    \E i \in 1..Len(variables.q) :
                        LET n == Get(variables.q[i], "name", Null)
                        IN  n.t = "str" /\ n.s \in CniVariableNames
            IN  Ok(IF ~cni_configured
                   THEN AuditReport_add(afterNetwork, "info", "Network", resource,
                            [text |-> "CNI configuration not found in cluster variables",
                             arg |-> Null],
                            "Ensure CNI plugin is configured (calico, cilium, etc.)")
                   ELSE afterNetwork)

\* A variant of check_replicas's first test that recommends HA below 4 replicas.
RecommendsHaBelowFour(cp_replicas) == cp_replicas < 4

\* `cp_replicas < 3`
BelowHa(cp_replicas) == cp_replicas < 3

\* A variant that takes only positive even counts as even.
EvenAndPositive(cp_replicas) == cp_replicas > 0 /\ cp_replicas % 2 = 0

\* `cp_replicas % 2 == 0`: the remainder of Python's % is never negative
EvenReplicas(cp_replicas) == cp_replicas % 2 = 0

\* The findings check_replicas adds to the report, in order.
check_replicas(c) ==
    LET res == ClusterResource(c)
        cp_ == TopologyGet(c, "controlPlane", EmptyMap)
    IN  IF res.raised \/ cp_.raised THEN Raise
        ELSE IF ~HasGet(cp_.out[1]) THEN Raise
        ELSE
        LET resource == res.out
            cp_replicas == Get(cp_.out[1], "replicas", Num(1))
        IN  IF cp_replicas.t # "num" THEN Raise
            ELSE
            LET afterHa ==
                    IF BelowHa(cp_replicas.n)
                    THEN AuditReport_add(<<>>,
                            IF cp_replicas.n = 1 THEN "medium" ELSE "low",
                            "Availability", resource,
                            [text |-> "Control plane has replica(s) (recommend 3 for HA)",
                             arg |-> cp_replicas],
                            "Use 3 control plane replicas for production HA")
                    ELSE <<>>
            IN  Ok(IF EvenReplicas(cp_replicas.n)
                   THEN AuditReport_add(afterHa, "low", "Availability", resource,
                            [text |-> "Control plane has even number of replicas",
                             arg |-> cp_replicas],
                            "Use odd number of replicas for proper etcd quorum")
                   ELSE afterHa)

(***************************************************************************)
(* check_provider_contract.py                                              *)
(***************************************************************************)
INFRASTRUCTURE_CLUSTER_CONTRACT ==
    [required_spec_fields |-> <<"controlPlaneEndpoint">>,
     required_status_fields |-> <<"ready">>]

INFRASTRUCTURE_MACHINE_CONTRACT ==
    [required_spec_fields |-> <<"providerID">>,
     required_status_fields |-> <<"ready", "addresses">>]

BOOTSTRAP_CONFIG_CONTRACT ==
    [required_spec_fields |-> <<>>,
     required_status_fields |-> <<"ready", "dataSecretName">>]

CONTROL_PLANE_CONTRACT ==
    [required_spec_fields |-> <<"version", "replicas">>,
     required_status_fields |->
        <<"ready", "initialized", "replicas", "readyReplicas", "updatedReplicas">>]

ContractViolation(severity, category, crd_name, message, requirement) ==
    [severity |-> severity, category |-> category, crd |-> crd_name,
     message |-> message, requirement |-> requirement]

\* ContractReport.add_violation on the violations list vs
add_violation(vs, severity, category, crd_name, message, requirement) ==
    Append(vs, ContractViolation(severity, category, crd_name, message, requirement))

error_count(vs) == CountIf(vs, LAMBDA v : v.severity = "error")
is_compliant(vs) == error_count(vs) = 0

\* print_report's per-severity group: the violations of that severity
SeverityGroupSize(vs, severity) == CountIf(vs, LAMBDA v : v.severity = severity)

\* crd.get("metadata", {}).get("name", "unknown")
CrdName(c) == Get(Get(c, "metadata", EmptyMap), "name", Str("unknown"))

\* the schema of the first served version, {} when no version is served
get_crd_schema(c) ==
    LET versions == Get(Get(c, "spec", EmptyMap), "versions", List(<<>>))
        served == {i \in 1..Len(versions.q) : Truthy(Get(versions.q[i], "served", Null))}
    IN  IF served = {} THEN EmptyMap
        ELSE LET k == CHOOSE i \in served : \A j \in served : i <= j
             IN  Get(Get(versions.q[k], "schema", EmptyMap), "openAPIV3Schema", EmptyMap)

\* the required fields the schema lacks under `part` (spec or status); all of
\* them when the schema has no such section
check_schema_fields(schema, required_fields, part) ==
    LET top == Get(schema, "properties", EmptyMap)
    IN  IF ~In(part, top) THEN required_fields
        ELSE LET properties == Get(top.m[part], "properties", EmptyMap)
             IN  SelectSeq(required_fields, LAMBDA field_name : ~In(field_name, properties))

\* schema.get("properties", {}).get(part, {}).get("properties", {})
SectionProps(schema, part) ==
    Get(Get(Get(schema, "properties", EmptyMap), part, EmptyMap), "properties", EmptyMap)

NoSchemaViolation(c) ==
    <<ContractViolation("error", "Schema", CrdName(c), <<"No OpenAPI schema found in CRD">>, <<>>)>>

\* one violation per missing field, built by mk
MissingViolations(missing, mk(_)) == [i \in 1..Len(missing) |-> mk(missing[i])]

\* A variant of the status loop of check_infrastructure_cluster that reports
\* nothing for a missing status field.
IgnoresMissingStatus(c, missing_status) == <<>>

\* the "Check status fields" loop of check_infrastructure_cluster
ClusterStatusViolations(c, missing_status) ==
    MissingViolations(missing_status, LAMBDA field_name :
        ContractViolation("error", "Status", CrdName(c),
            <<"Missing required status field", field_name>>,
            <<"Contract requires status", field_name>>))

\* The violations check_infrastructure_cluster adds to the report, in order.
check_infrastructure_cluster(c) ==
    LET schema == get_crd_schema(c)
        contract == INFRASTRUCTURE_CLUSTER_CONTRACT
    IN  IF ~Truthy(schema) THEN NoSchemaViolation(c)
        ELSE
        LET missing_spec == check_schema_fields(schema, contract.required_spec_fields, "spec")
            missing_status == check_schema_fields(schema, contract.required_status_fields, "status")
        IN  MissingViolations(missing_spec, LAMBDA field_name :
                ContractViolation("error", "Spec", CrdName(c),
                    <<"Missing required spec field", field_name>>,
                    <<"Contract requires spec", field_name>>))
            \o ClusterStatusViolations(c, missing_status)
            \o (IF ~In("conditions", SectionProps(schema, "status"))
                THEN <<ContractViolation("warning", "Conditions", CrdName(c),
                          <<"No conditions field in status">>,
                          <<"Conditions recommended for observability">>)>>
                ELSE <<>>)

\* The violations check_infrastructure_machine adds to the report, in order.
check_infrastructure_machine(c) ==
    LET schema == get_crd_schema(c)
    IN  IF ~Truthy(schema) THEN NoSchemaViolation(c)
        ELSE
        LET spec_props == SectionProps(schema, "spec")
            status_props == SectionProps(schema, "status")
        IN  (IF ~In("providerID", spec_props)
             THEN <<ContractViolation("error", "Spec", CrdName(c),
                       <<"Missing providerID field in spec">>,
                       <<"Contract requires spec.providerID for node correlation">>)>>
             ELSE <<>>)
            \o
            (IF ~In("ready", status_props)
             THEN <<ContractViolation("error", "Status", CrdName(c),
                       <<"Missing ready field in status">>, <<>>)>>
             ELSE <<>>)
            \o
            (IF ~In("addresses", status_props)
             THEN <<ContractViolation("error", "Status", CrdName(c),
                       <<"Missing addresses field in status">>,
                       <<"Contract requires status.addresses for node registration">>)>>
             ELSE <<>>)

\* The violations check_bootstrap_config adds to the report, in order.
check_bootstrap_config(c) ==
    LET schema == get_crd_schema(c)
    IN  IF ~Truthy(schema) THEN NoSchemaViolation(c)
        ELSE
        LET status_props == SectionProps(schema, "status")
        IN  (IF ~In("ready", status_props)
             THEN <<ContractViolation("error", "Status", CrdName(c),
                       <<"Missing ready field in status">>, <<>>)>>
             ELSE <<>>)
            \o
            (IF ~In("dataSecretName", status_props)
             THEN <<ContractViolation("error", "Status", CrdName(c),
                       <<"Missing dataSecretName field in status">>,
                       <<"Contract requires status.dataSecretName pointing to bootstrap data Secret">>)>>
             ELSE <<>>)

\* The violations check_control_plane adds to the report, in order.
check_control_plane(c) ==
    LET schema == get_crd_schema(c)
        contract == CONTROL_PLANE_CONTRACT
    IN  IF ~Truthy(schema) THEN NoSchemaViolation(c)
        ELSE
        LET spec_props == SectionProps(schema, "spec")
            status_props == SectionProps(schema, "status")
        IN  MissingViolations(
                SelectSeq(contract.required_spec_fields,
                            LAMBDA field_name : ~In(field_name, spec_props)),
                LAMBDA field_name :
                    ContractViolation("error", "Spec", CrdName(c),
                        <<"Missing required spec field", field_name>>, <<>>))
            \o
            MissingViolations(
                SelectSeq(contract.required_status_fields,
                            LAMBDA field_name : ~In(field_name, status_props)),
                LAMBDA field_name :
                    ContractViolation("error", "Status", CrdName(c),
                        <<"Missing required status field", field_name>>, <<>>))

(***************************************************************************)
(* check_cluster_health.py                                                 *)
(***************************************************************************)
HealthIssue(resource, name, condition_type, status, reason, message, severity) ==
    [resource |-> resource, name |-> name, condition_type |-> condition_type,
     status |-> status, reason |-> reason, message |-> message, severity |-> severity]

\* A variant of the table that rates Available as informational.
CriticalWithInfo ==
    [Ready |-> "error",
     Available |-> "info",
     InfrastructureReady |-> "error",
     ControlPlaneReady |-> "error",
     BootstrapReady |-> "warning",
     Provisioned |-> "error",
     Initialized |-> "warning"]

CRITICAL_CONDITIONS ==
    [Ready |-> "error",
     Available |-> "warning",
     InfrastructureReady |-> "error",
     ControlPlaneReady |-> "error",
     BootstrapReady |-> "warning",
     Provisioned |-> "error",
     Initialized |-> "warning"]

EXPECTED_TRUE ==
    {"Ready", "Available", "InfrastructureReady", "ControlPlaneReady",
     "BootstrapReady", "Provisioned", "Initialized", "UpToDate"}

\* the error_reasons list of analyze_conditions
error_reasons ==
    {"ProvisioningFailed", "InvalidConfiguration", "WaitingForInfrastructure",
     "WaitingForControlPlane", "ScalingDown", "Deleting", "Failed", "ProviderError"}

\* the issues analyze_conditions appends for one condition
ConditionIssues(resource_type, name, cond) ==
    LET cond_type == Get(cond, "type", Str(""))
        status == Get(cond, "status", Str(""))
        reason == Get(cond, "reason", Str(""))
        message == Get(cond, "message", Str(""))
    IN  (IF cond_type.t = "str" /\ cond_type.s \in EXPECTED_TRUE /\ status # Str("True")
         THEN <<HealthIssue(resource_type, name, cond_type, status, reason, message,
                    IF cond_type.s \in DOMAIN CRITICAL_CONDITIONS
                    THEN CRITICAL_CONDITIONS[cond_type.s] ELSE "warning")>>
         ELSE <<>>)
        \o
        (IF reason.t = "str" /\ reason.s \in error_reasons
         THEN <<HealthIssue(resource_type, name, cond_type, status, reason, message,
                    "warning")>>
         ELSE <<>>)

\* conditions is a list of mappings
analyze_conditions(resource_type, name, conditions) ==
    Flatten([i \in 1..Len(conditions.q) |->
                ConditionIssues(resource_type, name, conditions.q[i])])

\* the body of check_cluster_health's loop over the items of one resource type
ItemIssues(resource_type, item) ==
    LET name == Get(Get(item, "metadata", EmptyMap), "name", Str("unknown"))
        status == Get(item, "status", EmptyMap)
        direct == Get(status, "conditions", List(<<>>))
        conditions ==
            IF Truthy(direct) THEN direct
            ELSE Get(Get(status, "v1beta2", EmptyMap), "conditions", List(<<>>))
    IN  IF Truthy(conditions) THEN analyze_conditions(resource_type, name, conditions)
        ELSE <<>>

\* get_cluster_resources: the resource types kubectl answered for, in the
\* order they are asked; k is what kubectl returned for each query (Null when
\* the query failed)
get_cluster_resources(k) ==
    (IF Truthy(k.cluster) THEN <<[type |-> "Cluster", items |-> <<k.cluster>>]>> ELSE <<>>)
    \o
    (IF Truthy(k.machines) /\ In("items", k.machines)
     THEN <<[type |-> "Machine", items |-> k.machines.m["items"].q]>>
     ELSE <<>>)

\* the all_issues list of check_cluster_health
check_cluster_health(k) ==
    LET resources == get_cluster_resources(k)
    IN  Flatten([r \in 1..Len(resources) |->
            Flatten([i \in 1..Len(resources[r].items) |->
                ItemIssues(resources[r].type, resources[r].items[i])])])

\* summary["errors"] and summary["warnings"]
SummaryErrors(all_issues) == CountIf(all_issues, LAMBDA i : i.severity = "error")
SummaryWarnings(all_issues) == CountIf(all_issues, LAMBDA i : i.severity = "warning")

\* A variant of the exit code that reports errors with status 1.
ExitOneOnErrors(all_issues) ==
    IF SummaryErrors(all_issues) > 0 THEN 1
    ELSE IF SummaryWarnings(all_issues) > 0 THEN 1
    ELSE 0

\* "Exit code based on health"
HealthExitCode(all_issues) ==
    IF SummaryErrors(all_issues) > 0 THEN 2
    ELSE IF SummaryWarnings(all_issues) > 0 THEN 1
    ELSE 0

(***************************************************************************)
(* The documents the checks are run on.                                    *)
(***************************************************************************)
\* a mapping entry that may be missing
Opt(k, S) == {<<>>} \cup {k :> v : v \in S}

ApiVersionVals ==
    {Null, Str(""), Str("cluster.x-k8s.io/v1beta1"), Str("cluster.x-k8s.io/v1alpha3"), Str("v1")}

NameVals == {Null, Str(""), Num(0), Str("c1")}

ClusterMetadataVals ==
    {Null, List(<<Str("name")>>)} \cup {Map(n) : n \in Opt("name", NameVals)}

InfraRefVals ==
    {Null, Str("ref")}
    \cup {Map(k @@ n) : k \in Opt("kind", {Str(""), Str("AWSCluster")}),
                        n \in Opt("name", {Str(""), Str("infra")})}

ControlPlaneRefVals ==
    {Map(k) : k \in Opt("kind", {Str(""), Str("KubeadmControlPlane")})}

TopologyVals ==
    {Null} \cup {Map(r) : r \in Opt("rolloutAfter", {Null, Bool(FALSE), Str("2024-01-01")})}

ClusterSpecVals ==
    {Null, List(<<Str("infrastructureRef")>>)}
    \cup {Map(ir @@ cp @@ tp @@ ps) :
            ir \in Opt("infrastructureRef", InfraRefVals),
            cp \in Opt("controlPlaneRef", ControlPlaneRefVals),
            tp \in Opt("topology", TopologyVals),
            ps \in Opt("paused", {Bool(FALSE)})}

ClusterDocs ==
    {Map(("kind" :> Str("Cluster")) @@ a @@ m @@ sp) :
        a \in Opt("apiVersion", ApiVersionVals),
        m \in Opt("metadata", ClusterMetadataVals),
        sp \in Opt("spec", ClusterSpecVals)}

MachineMetadataVals ==
    {Map(("name" :> Str("m1")) @@ l) :
        l \in Opt("labels", {Null, EmptyMap, Map("cluster.x-k8s.io/cluster-name" :> Str("c1"))})}

MachineRefVals ==
    {Map("kind" :> Str("AWSMachine")),
     Map(("kind" :> Str("AWSMachine")) @@ ("apiVersion" :> Str("v1"))
         @@ ("namespace" :> Str("ns")))}

MachineSpecVals ==
    {Map(cn @@ bs @@ ir @@ nd @@ dr @@ ver) :
        cn \in Opt("clusterName", {Str(""), Str("c1")}),
        bs \in Opt("bootstrap", {EmptyMap, Map("dataSecretName" :> Str("s"))}),
        ir \in Opt("infrastructureRef", MachineRefVals),
        nd \in Opt("nodeDeletionTimeout", {Null, Str("10s"), Str("10"), Num(10)}),
        dr \in Opt("nodeDrainTimeout", {Str("10s"), Num(10)}),
        ver \in Opt("version", {Str("v1.30.0")})}

MachineDocs ==
    {Map(("kind" :> Str("Machine")) @@ a @@ m @@ sp @@ st) :
        a \in Opt("apiVersion", {Str("cluster.x-k8s.io/v1beta1")}),
        m \in Opt("metadata", MachineMetadataVals),
        sp \in Opt("spec", MachineSpecVals),
        st \in Opt("status", {Map("ready" :> Bool(FALSE)), Map("ready" :> Null)})}

OtherDocs ==
    {Map(k @@ ("apiVersion" :> Str("cluster.x-k8s.io/v1beta1"))
           @@ ("metadata" :> Map("name" :> Str("o1"))) @@ sp) :
        k \in Opt("kind", {Null, Str(""), Str("ConfigMap"), Str("KubeadmConfig"),
                           Str("MachineHealthCheck"), List(<<Str("Cluster")>>)}),
        sp \in Opt("spec", {EmptyMap, Map("clusterName" :> Str("c1")),
                            Str("selector"), Num(3)})}

Docs == ClusterDocs \cup MachineDocs \cup OtherDocs

\* the paths get_nested is asked for
Paths ==
    {<<"status", "ready">>, <<"spec", "topology", "rolloutAfter">>,
     <<"metadata", "name", "first">>}

(***************************************************************************)
(* The parts of the state a specification does not use stay at rest.       *)
(***************************************************************************)
IdleDocs == doc = EmptyMap /\ path = <<>> /\ op = "idle" /\ result = NoResult
IdleReport == findings = <<>> /\ violations = <<>>
IdleAudit == cluster = EmptyMap /\ apc = "idle" /\ added = <<>>
IdleContract == crd = EmptyMap /\ cop = "idle"
IdleHealth == henv = EmptyMap /\ hpc = "idle" /\ issues = <<>> /\ hexit = <<>>
IdleMain ==
    /\ menv = EmptyMap /\ mpc = "idle" /\ results = <<>>
    /\ total_errors = 0 /\ total_warnings = 0 /\ mexit = <<>>
IdleFiles == fenv = EmptyMap /\ fpc = "idle" /\ fresults = <<>>
IdleFetch == kenv = EmptyMap /\ kpc = "idle" /\ kfetched = <<>> /\ kissues = <<>>
IdleUsage == uenv = EmptyMap /\ upc = "idle" /\ uexit = <<>>
IdleClean == cin = EmptyMap /\ cpc = "idle" /\ cout = <<>> /\ carg = EmptyMap
IdleExportRun ==
    /\ xenv = EmptyMap /\ xpc = "idle" /\ xfiles = <<>> /\ xexit = <<>>
    /\ xstats = EmptyMap /\ xtwin = EmptyMap
IdleExport == IdleExportRun /\ IdleClean
IdleKubectl == jout = EmptyMap /\ jpc = "idle" /\ jlists = <<>>
IdlePlan == penv = EmptyMap /\ ppc = "idle" /\ pfile = <<>> /\ pexit = <<>>
IdleLint == lcontent = EmptyMap /\ lpc = "idle" /\ lissues = <<>>
IdleKubeadm == kcpin = EmptyMap /\ kcppc = "idle" /\ kcpadded = <<>>
IdleCoderabbit ==
    /\ renv = EmptyMap /\ rpc = "idle" /\ rchild = EmptyMap /\ rstdout = <<>>
    /\ rfile = <<>> /\ rtimedout = FALSE /\ rexit = <<>>
IdleVersions == venv = EmptyMap /\ vpc = "idle" /\ vcomp = <<>>
IdleTools == IdleLint /\ IdleKubeadm /\ IdleCoderabbit /\ IdleVersions
IdleAnalyses ==
    IdleDocs /\ IdleReport /\ IdleAudit /\ IdleContract /\ IdleHealth /\ IdleMain
IdleRuns ==
    IdleFiles /\ IdleFetch /\ IdleUsage /\ IdleExport /\ IdleKubectl /\ IdlePlan

(***************************************************************************)
(* SpecDocs: one document check applied to one document.                   *)
(***************************************************************************)
InitDocs ==
    /\ doc \in Docs
    /\ path = <<>>
    /\ op = "none"
    /\ result = NoResult
    /\ IdleReport /\ IdleAudit /\ IdleContract /\ IdleHealth /\ IdleMain /\ IdleRuns /\ IdleTools

\* A variant in which a check fills in a missing apiVersion of the document
\* it is given.
FillsInApiVersion(d) ==
    IF IsDict(d) /\ ~In("apiVersion", d)
    THEN Map(("apiVersion" :> Str("cluster.x-k8s.io/v1beta1")) @@ d.m)
    ELSE d

\* The document as a check leaves it: validate_document, lint_document and
\* analyze_document and the functions they call only read it (.get, `in`,
\* isinstance) and keep their findings in lists created by the call.
DocumentAfter(d) == d

\* the document check of that name
DocumentCheck(name, d) ==
    CASE name = "validate_document" -> validate_document(d)
      [] name = "lint_document" -> lint_document(d)
      [] name = "analyze_document" -> analyze_document(d)

ValidateDocument ==
    /\ op = "none"
    /\ op' = "validate_document"
    /\ result' = validate_document(doc)
    /\ doc' = DocumentAfter(doc)
    /\ UNCHANGED <<path, reportVars, auditVars, contractVars, healthVars, mainVars, runVars, toolVars>>

LintDocument ==
    /\ op = "none"
    /\ op' = "lint_document"
    /\ result' = lint_document(doc)
    /\ doc' = DocumentAfter(doc)
    /\ UNCHANGED <<path, reportVars, auditVars, contractVars, healthVars, mainVars, runVars, toolVars>>

AnalyzeDocument ==
    /\ op = "none"
    /\ op' = "analyze_document"
    /\ result' = analyze_document(doc)
    /\ doc' = DocumentAfter(doc)
    /\ UNCHANGED <<path, reportVars, auditVars, contractVars, healthVars, mainVars, runVars, toolVars>>

GetNested ==
    /\ op = "none"
    /\ \E p \in Paths :
        /\ path' = p
        /\ result' = Ok(<<get_nested(doc, p)>>)
    /\ op' = "get_nested"
    /\ UNCHANGED <<doc, reportVars, auditVars, contractVars, healthVars, mainVars, runVars, toolVars>>

\* the same check is called once more on the document as the first call left
\* it; `again` is what the second call returned
RepeatCheck ==
    /\ op \in {"validate_document", "lint_document", "analyze_document"}
    /\ "again" \notin DOMAIN result
    /\ result' = [raised |-> result.raised, out |-> result.out,
                  again |-> DocumentCheck(op, doc)]
    /\ doc' = DocumentAfter(doc)
    /\ UNCHANGED <<path, op, reportVars, auditVars, contractVars, healthVars, mainVars, runVars, toolVars>>

NextDocs == ValidateDocument \/ LintDocument \/ AnalyzeDocument \/ GetNested \/ RepeatCheck

SpecDocs == InitDocs /\ [][NextDocs]_vars

(***************************************************************************)
(* SpecReport: add and add_violation called on fresh reports.              *)
(***************************************************************************)
MaxFindings == 3

\* the severities the check functions of audit_security.py pass to add
AuditSeverities == {"high", "medium", "low", "info"}
\* the severities of a ContractViolation
ViolationSeverities == {"error", "warning", "info"}

InitReport ==
    /\ findings = <<>>
    /\ violations = <<>>
    /\ IdleDocs /\ IdleAudit /\ IdleContract /\ IdleHealth /\ IdleMain /\ IdleRuns /\ IdleTools

Add ==
    /\ Len(findings) < MaxFindings
    /\ \E severity \in AuditSeverities :
          findings' = AuditReport_add(findings, severity, "Category",
                          <<"Cluster", Str("default"), Str("c1")>>,
                          [text |-> "message", arg |-> Null], "")
    /\ UNCHANGED <<violations, docVars, auditVars, contractVars, healthVars, mainVars, runVars, toolVars>>

AddViolation ==
    /\ Len(violations) < MaxFindings
    /\ \E severity \in ViolationSeverities :
          violations' = add_violation(violations, severity, "Category",
                            Str("crd"), <<"message">>, <<>>)
    /\ UNCHANGED <<findings, docVars, auditVars, contractVars, healthVars, mainVars, runVars, toolVars>>

NextReport == Add \/ AddViolation

SpecReport == InitReport /\ [][NextReport]_vars

(***************************************************************************)
(* SpecAudit: run_audit's checks on one Cluster, in run_audit's order.      *)
(***************************************************************************)
MaxReplicas == 4

PssValueVals ==
    {Map(e @@ a) : e \in Opt("enforce", {Str("privileged"), Str("baseline"), Str("restricted")}),
                   a \in Opt("audit", {Str("restricted")})}

PssVariableVals ==
    {Map(("name" :> Str("podSecurityStandard")) @@ v) : v \in Opt("value", PssValueVals)}

CniVariable == Map("name" :> Str("cni"))

VariablesVals ==
    {List(<<>>), List(<<CniVariable>>)}
    \cup {List(<<p>>) : p \in PssVariableVals}
    \cup {List(<<CniVariable, p>>) : p \in PssVariableVals}

ReplicasVals == {Num(n) : n \in (0 - MaxReplicas)..MaxReplicas}

ControlPlaneVals == {Map(r) : r \in Opt("replicas", ReplicasVals)}

AuditTopologyVals ==
    {Map(v @@ cp) : v \in Opt("variables", VariablesVals),
                    cp \in Opt("controlPlane", ControlPlaneVals)}

ClusterNetworkVals == {EmptyMap, Map("pods" :> Map("cidrBlocks" :> List(<<Str("10.0.0.0/16")>>)))}

AuditClusters ==
    {Map(("metadata" :> Map(("name" :> Str("c1")) @@ ns))
         @@ ("spec" :> Map(cn @@ tp))) :
        ns \in Opt("namespace", {Str("prod")}),
        cn \in Opt("clusterNetwork", ClusterNetworkVals),
        tp \in Opt("topology", AuditTopologyVals)}

InitAudit ==
    /\ cluster \in AuditClusters
    /\ apc = "check_pss_configuration"
    /\ added = <<>>
    /\ findings = <<>>
    /\ violations = <<>>
    /\ IdleDocs /\ IdleContract /\ IdleHealth /\ IdleMain /\ IdleRuns /\ IdleTools

\* one check of run_audit's loop body: what it added stays in the report even
\* when it raises, and an exception leaves run_audit
RunCheck(name, r, next) ==
    /\ apc = name
    /\ findings' = findings \o r.out
    /\ added' = r.out
    /\ apc' = IF r.raised THEN "raised" ELSE next
    /\ UNCHANGED <<cluster, violations, docVars, contractVars, healthVars, mainVars, runVars, toolVars>>

CheckPssConfiguration ==
    RunCheck("check_pss_configuration", check_pss_configuration(cluster),
             "check_network_security")

CheckNetworkSecurity ==
    RunCheck("check_network_security", check_network_security(cluster), "check_replicas")

CheckReplicas ==
    RunCheck("check_replicas", check_replicas(cluster), "related_resources")

NextAudit == CheckPssConfiguration \/ CheckNetworkSecurity \/ CheckReplicas

SpecAudit == InitAudit /\ [][NextAudit]_vars

(***************************************************************************)
(* SpecContract: one contract check applied to one CRD on a fresh report.   *)
(***************************************************************************)
SpecPropertyNames == {"controlPlaneEndpoint", "providerID", "version", "replicas"}

StatusPropertyNames ==
    {"ready", "addresses", "dataSecretName", "initialized", "replicas",
     "readyReplicas", "updatedReplicas", "conditions"}

\* a schema section: {"type": "object", "properties": {name: {...}, ...}}
Section(names) == Map("properties" :> Map([n \in names |-> Map("type" :> Str("object"))]))

SchemaVals ==
    {EmptyMap}
    \cup {Map("properties" :> Map(sp @@ st)) :
            sp \in Opt("spec", {Section(P) : P \in SUBSET SpecPropertyNames}),
            st \in Opt("status", {Section(P) : P \in SUBSET StatusPropertyNames})}

Version(served, schema) ==
    Map(("name" :> Str("v1beta1")) @@ ("served" :> Bool(served))
        @@ ("schema" :> Map("openAPIV3Schema" :> schema)))

FullSchema ==
    Map("properties" :> Map(("spec" :> Section(SpecPropertyNames))
                            @@ ("status" :> Section(StatusPropertyNames))))

VersionsVals ==
    {List(<<>>)}
    \cup {List(<<Version(TRUE, s)>>) : s \in SchemaVals}
    \cup {List(<<Version(FALSE, FullSchema), Version(TRUE, s)>>) : s \in SchemaVals}

Crds ==
    {Map(("metadata" :> Map("name" :> Str("awsclusters.infrastructure.cluster.x-k8s.io")))
         @@ ("spec" :> Map("versions" :> v))) : v \in VersionsVals}

InitContract ==
    /\ crd \in Crds
    /\ cop = "none"
    /\ findings = <<>>
    /\ violations = <<>>
    /\ IdleDocs /\ IdleAudit /\ IdleHealth /\ IdleMain /\ IdleRuns /\ IdleTools

RunContractCheck(name, vs) ==
    /\ cop = "none"
    /\ violations' = violations \o vs
    /\ cop' = name
    /\ UNCHANGED <<crd, findings, docVars, auditVars, healthVars, mainVars, runVars, toolVars>>

CheckInfrastructureCluster ==
    RunContractCheck("check_infrastructure_cluster", check_infrastructure_cluster(crd))

CheckInfrastructureMachine ==
    RunContractCheck("check_infrastructure_machine", check_infrastructure_machine(crd))

CheckBootstrapConfig ==
    RunContractCheck("check_bootstrap_config", check_bootstrap_config(crd))

CheckControlPlane ==
    RunContractCheck("check_control_plane", check_control_plane(crd))

NextContract ==
    \/ CheckInfrastructureCluster
    \/ CheckInfrastructureMachine
    \/ CheckBootstrapConfig
    \/ CheckControlPlane

SpecContract == InitContract /\ [][NextContract]_vars

(***************************************************************************)
(* SpecHealth: one run of check_cluster_health.py's main.                   *)
(***************************************************************************)
MaxConditions == 2

ConditionVals ==
    {Map(("type" :> Str("Ready")) @@ ("status" :> Str(s)) @@ r) :
        s \in {"True", "False"}, r \in Opt("reason", {Str("Failed")})}
    \cup {Map(("type" :> Str(t)) @@ ("status" :> Str(s))) :
            t \in {"Available", "UpToDate"}, s \in {"True", "Unknown"}}
    \cup {Map(("type" :> Str("Paused")) @@ ("status" :> Str("False"))
              @@ ("reason" :> Str(r))) : r \in {"NotPaused", "Deleting"}}

\* the condition lists with at most n conditions
RECURSIVE ConditionLists(_)
ConditionLists(n) ==
    IF n = 0 THEN {<<>>}
    ELSE LET shorter == ConditionLists(n - 1)
         IN  shorter \cup {Append(q, c) : q \in shorter, c \in ConditionVals}

StatusVals ==
    {Map("conditions" :> List(q)) : q \in ConditionLists(MaxConditions)}
    \cup {Map("v1beta2" :> Map("conditions" :> List(q))) :
            q \in ConditionLists(MaxConditions) \ {<<>>}}

HealthClusterVals ==
    {Null} \cup {Map(("metadata" :> Map("name" :> Str("c1"))) @@ st) :
                    st \in Opt("status", StatusVals)}

HealthMachine(conds) ==
    Map(("metadata" :> Map("name" :> Str("m1")))
        @@ ("status" :> Map("conditions" :> List(conds))))

HealthMachinesVals ==
    {Null,
     Map("items" :> List(<<>>)),
     Map("items" :> List(<<HealthMachine(<<Map(("type" :> Str("BootstrapReady"))
                                              @@ ("status" :> Str("False")))>>)>>))}

\* what the run is given: the command line and what the environment answers
HealthEnvs ==
    [usage_ok : {TRUE}, json : BOOLEAN, output : {"none", "writable", "unwritable"},
     kubectl_found : BOOLEAN, cluster : HealthClusterVals, machines : HealthMachinesVals]
    \cup
    [usage_ok : {FALSE}, json : {FALSE}, output : {"none"},
     kubectl_found : BOOLEAN, cluster : {Null}, machines : {Null}]

InitHealth ==
    /\ henv \in HealthEnvs
    /\ hpc = "parse_args"
    /\ issues = <<>>
    /\ hexit = <<>>
    /\ IdleDocs /\ IdleReport /\ IdleAudit /\ IdleContract /\ IdleMain /\ IdleRuns /\ IdleTools

\* parser.parse_args(): without the cluster_name argument argparse prints the
\* usage and ends the process with status 2
HealthParseArgs ==
    /\ hpc = "parse_args"
    /\ IF henv.usage_ok
       THEN hpc' = "find_kubectl" /\ hexit' = <<>>
       ELSE hpc' = "usage_exit" /\ hexit' = <<2>>
    /\ UNCHANGED <<henv, issues, docVars, reportVars, auditVars, contractVars, mainVars, runVars, toolVars>>

\* find_kubectl() and check_cluster_health(); the RuntimeError of a missing
\* kubectl is caught by main, which returns 1
HealthCheck ==
    /\ hpc = "find_kubectl"
    /\ IF henv.kubectl_found
       THEN /\ issues' = check_cluster_health(henv)
            /\ hpc' = "report"
            /\ hexit' = <<>>
       ELSE /\ issues' = issues
            /\ hpc' = "returned"
            /\ hexit' = <<1>>
    /\ UNCHANGED <<henv, docVars, reportVars, auditVars, contractVars, mainVars, runVars, toolVars>>

\* the report is printed, the --output file written (an OSError of write_text
\* is not caught) and the exit code returned
HealthReport ==
    /\ hpc = "report"
    /\ IF henv.output = "unwritable"
       THEN hpc' = "raised" /\ hexit' = <<>>
       ELSE hpc' = "returned" /\ hexit' = <<HealthExitCode(issues)>>
    /\ UNCHANGED <<henv, issues, docVars, reportVars, auditVars, contractVars, mainVars, runVars, toolVars>>

NextHealth == HealthParseArgs \/ HealthCheck \/ HealthReport

SpecHealth == InitHealth /\ [][NextHealth]_vars

(***************************************************************************)
(* SpecMain: one run of validate_manifests.py's or                         *)
(* lint_cluster_templates.py's main.  A file is given by what its analysis *)
(* yields: the severities of its findings, or "raises" when a document     *)
(* check raises on one of its documents.                                   *)
(***************************************************************************)
MaxIssues == 2
MaxFiles == 2

\* the sequences over S with at most n elements
RECURSIVE SeqsUpTo(_, _)
SeqsUpTo(S, n) ==
    IF n = 0 THEN {<<>>}
    ELSE LET shorter == SeqsUpTo(S, n - 1)
         IN  shorter \cup {Append(q, x) : q \in shorter, x \in S}

FileResult(severities) == [raises |-> FALSE, issues |-> severities]
FileRaises == [raises |-> TRUE, issues |-> <<>>]

\* validate_file's findings are errors and warnings
ValidatedFiles ==
    {FileResult(q) : q \in SeqsUpTo({"error", "warning"}, MaxIssues)} \cup {FileRaises}

\* lint_file's issues are errors, warnings and infos
LintedFiles ==
    {FileResult(q) : q \in SeqsUpTo({"error", "warning", "info"}, MaxIssues)}
    \cup {FileRaises}

AssetFiles == {FileResult(<<>>), FileResult(<<"warning">>), FileResult(<<"info">>)}

\* a file named on the command line: linted clean, or "File not found"
NamedFiles == {FileResult(<<>>), FileResult(<<"error">>)}

MainEnvs ==
    [script : {"validate_manifests"}, strict : BOOLEAN, format : {"text"},
     assets : {"off"}, asset_files : {<<>>}, dir : {"none"}, dir_files : {<<>>},
     files : SeqsUpTo(ValidatedFiles, MaxFiles)]
    \cup
    [script : {"lint_cluster_templates"}, strict : BOOLEAN, format : {"text", "json"},
     assets : {"on"}, asset_files : SeqsUpTo(AssetFiles, 1),
     dir : {"none"}, dir_files : {<<>>}, files : SeqsUpTo(NamedFiles, 1)]
    \cup
    [script : {"lint_cluster_templates"}, strict : BOOLEAN, format : {"text", "json"},
     assets : {"off", "on"}, asset_files : {<<>>, <<FileResult(<<>>)>>},
     dir : {"missing"}, dir_files : {<<>>}, files : SeqsUpTo(NamedFiles, 1)]
    \cup
    [script : {"lint_cluster_templates"}, strict : BOOLEAN, format : {"text", "json"},
     assets : {"off"}, asset_files : {<<>>},
     dir : {"none", "exists"}, dir_files : SeqsUpTo(LintedFiles, 1),
     files : SeqsUpTo(NamedFiles, 1)]

\* the environment is consistent: files are found only where they are looked for
ConsistentEnv(e) ==
    /\ e.assets = "off" => e.asset_files = <<>>
    /\ e.dir # "exists" => e.dir_files = <<>>

InitMain ==
    /\ menv \in {e \in MainEnvs : ConsistentEnv(e)}
    /\ mpc = "start"
    /\ results = <<>>
    /\ total_errors = 0
    /\ total_warnings = 0
    /\ mexit = <<>>
    /\ IdleDocs /\ IdleReport /\ IdleAudit /\ IdleContract /\ IdleHealth /\ IdleRuns /\ IdleTools

MainUnchanged == UNCHANGED <<menv, docVars, reportVars, auditVars, contractVars, healthVars, runVars, toolVars>>

CountSeverity(file_issues, severity) == CountIf(file_issues, LAMBDA s : s = severity)

\* validate_manifests.main up to its loop: find_yaml_files and "No YAML files found"
ValidateFindFiles ==
    /\ menv.script = "validate_manifests"
    /\ mpc = "start"
    /\ IF menv.files = <<>>
       THEN mpc' = "returned" /\ mexit' = <<1>>
       ELSE mpc' = "validate_file" /\ mexit' = mexit
    /\ UNCHANGED <<results, total_errors, total_warnings>>
    /\ MainUnchanged

\* one iteration of validate_manifests.main's loop over files
ValidateFile ==
    /\ menv.script = "validate_manifests"
    /\ mpc = "validate_file"
    /\ Len(results) < Len(menv.files)
    /\ LET file == menv.files[Len(results) + 1]
       IN  IF file.raises
           THEN /\ mpc' = "raised"
                /\ UNCHANGED <<results, total_errors, total_warnings>>
           ELSE /\ results' = Append(results, file.issues)
                /\ total_errors' = total_errors + CountSeverity(file.issues, "error")
                /\ total_warnings' = total_warnings + CountSeverity(file.issues, "warning")
                /\ mpc' = IF Len(results) + 1 = Len(menv.files)
                          THEN "summary" ELSE "validate_file"
    /\ UNCHANGED mexit
    /\ MainUnchanged

\* A variant of validate_manifests.main's exit code that ignores --strict.
ValidateExitIgnoresStrict(errors, warnings, strict) == IF errors > 0 THEN 1 ELSE 0

\* validate_manifests.main's exit code from its totals
ValidateExitCode(errors, warnings, strict) ==
    IF errors > 0 THEN 1
    ELSE IF strict /\ warnings > 0 THEN 1
    ELSE 0

\* validate_manifests.main's summary and return
ValidateSummary ==
    /\ menv.script = "validate_manifests"
    /\ mpc = "summary"
    /\ mexit' = <<ValidateExitCode(total_errors, total_warnings, menv.strict)>>
    /\ mpc' = "returned"
    /\ UNCHANGED <<results, total_errors, total_warnings>>
    /\ MainUnchanged

\* the results of linting the files of a sequence, and whether one raised
LintAll(files) ==
    LET bad == {i \in 1..Len(files) : files[i].raises}
        upto == IF bad = {} THEN Len(files)
                ELSE (CHOOSE i \in bad : \A j \in bad : i <= j) - 1
    IN  [raised |-> bad # {}, out |-> [i \in 1..upto |-> files[i].issues]]

\* lint main: "if not args.files and not args.dir and not args.assets" and
\* "Lint assets"
LintAssets ==
    /\ menv.script = "lint_cluster_templates"
    /\ mpc = "start"
    /\ IF menv.files = <<>> /\ menv.dir = "none" /\ menv.assets = "off"
       THEN /\ mpc' = "returned"
            /\ mexit' = <<1>>
            /\ results' = results
       ELSE LET r == LintAll(menv.asset_files)
            IN  /\ results' = results \o r.out
                /\ mpc' = IF r.raised THEN "raised" ELSE "lint_dir"
                /\ mexit' = mexit
    /\ UNCHANGED <<total_errors, total_warnings>>
    /\ MainUnchanged

\* lint main: "Lint directory"
LintDir ==
    /\ menv.script = "lint_cluster_templates"
    /\ mpc = "lint_dir"
    /\ IF menv.dir = "missing"
       THEN /\ mpc' = "returned"
            /\ mexit' = <<1>>
            /\ results' = results
       ELSE LET r == LintAll(menv.dir_files)
            IN  /\ results' = results \o r.out
                /\ mpc' = IF r.raised THEN "raised" ELSE "lint_files"
                /\ mexit' = mexit
    /\ UNCHANGED <<total_errors, total_warnings>>
    /\ MainUnchanged

\* lint main: "Lint individual files"
LintFiles ==
    /\ menv.script = "lint_cluster_templates"
    /\ mpc = "lint_files"
    /\ LET r == LintAll(menv.files)
       IN  /\ results' = results \o r.out
           /\ mpc' = IF r.raised THEN "raised" ELSE "output"
    /\ UNCHANGED <<mexit, total_errors, total_warnings>>
    /\ MainUnchanged

\* LintResult.has_errors / has_warnings
has_errors(file_issues) == \E i \in 1..Len(file_issues) : file_issues[i] = "error"
has_warnings(file_issues) == \E i \in 1..Len(file_issues) : file_issues[i] = "warning"

\* A variant of lint main's exit code that fails on warnings without --strict.
LintExitAlwaysStrict(rs, strict) ==
    IF \E i \in 1..Len(rs) : has_errors(rs[i]) \/ has_warnings(rs[i]) THEN 1 ELSE 0

\* lint main's "Exit code"
LintExitCode(rs, strict) ==
    IF \E i \in 1..Len(rs) : has_errors(rs[i]) THEN 1
    ELSE IF strict /\ \E i \in 1..Len(rs) : has_warnings(rs[i]) THEN 1
    ELSE 0

\* lint main: "No files to lint", the output (print_results's totals in text
\* format) and the exit code
LintOutput ==
    /\ menv.script = "lint_cluster_templates"
    /\ mpc = "output"
    /\ mpc' = "returned"
    /\ IF results = <<>>
       THEN /\ mexit' = <<1>>
            /\ UNCHANGED <<total_errors, total_warnings>>
       ELSE /\ mexit' = <<LintExitCode(results, menv.strict)>>
            /\ IF menv.format = "json"
               THEN UNCHANGED <<total_errors, total_warnings>>
               ELSE /\ total_errors' =
                        Len(SelectSeq(Flatten(results), LAMBDA s : s = "error"))
                    /\ total_warnings' =
                        Len(SelectSeq(Flatten(results), LAMBDA s : s = "warning"))
    /\ UNCHANGED results
    /\ MainUnchanged

NextMain ==
    \/ ValidateFindFiles
    \/ ValidateFile
    \/ ValidateSummary
    \/ LintAssets
    \/ LintDir
    \/ LintFiles
    \/ LintOutput

SpecMain == InitMain /\ [][NextMain]_vars




(***************************************************************************)
(* Properties of the document checks (SpecDocs).                           *)
(***************************************************************************)
\* the key path exists in the document: every key is a key of a mapping on the way
RECURSIVE Present(_, _)
Present(v, keys) ==
    IF keys = <<>> THEN TRUE
    ELSE /\ v.t = "map"
         /\ Head(keys) \in DOMAIN v.m
         /\ Present(v.m[Head(keys)], Tail(keys))

\* the value stored at a present key path
RECURSIVE ValueAt(_, _)
ValueAt(v, keys) == IF keys = <<>> THEN v ELSE ValueAt(v.m[Head(keys)], Tail(keys))

DocKind == Get(doc, "kind", Str(""))
DocSpec == Get(doc, "spec", EmptyMap)
Returned(name) == op = name /\ ~result.raised

\* validate_spec's missing-field findings for spec.F
ValidateMissing(F) ==
    CountIf(result.out, LAMBDA f :
        f.severity = "error" /\ f.path = <<"spec", F>>
        /\ f.message = <<"Missing required field", F>>)

\* lint_document's missing-field findings for spec.F
LintMissing(F) ==
    CountIf(result.out, LAMBDA f :
        f.severity = "error"
        /\ f.message = <<"Missing required spec field for", DocKind.s, F>>)

LintExempt(F) ==
    /\ DocKind = Str("Cluster")
    /\ In("topology", DocSpec)
    /\ F \in {"infrastructureRef", "controlPlaneRef"}

FalsyPresent(keys) ==
    /\ Present(doc, keys)
    /\ ValueAt(doc, keys) # Null
    /\ ~Truthy(ValueAt(doc, keys))

\* C3 (as claimed): a field present with a falsy value (false, 0, "", {} or [])
\* is resolved as present: get_nested returns that value, not the absent
\* marker, and validate_manifests reports no "Missing ..." finding for a path
\* that is present with a falsy value.
C3_FalsyIsPresent ==
    /\ (op = "get_nested" /\ FalsyPresent(path)) =>
         /\ result.out[1] = ValueAt(doc, path)
         /\ result.out[1] # Null
    /\ Returned("validate_document") =>
         \A i \in 1..Len(result.out) :
            result.out[i].message[1] \in
                {"Missing apiVersion field", "Missing kind field", "Missing metadata field",
                 "Missing name field", "Missing spec field", "Missing required field",
                 "Missing kind in infrastructureRef", "Missing name in infrastructureRef",
                 "Missing kind in controlPlaneRef"}
            => ~FalsyPresent(result.out[i].path)

\* the deprecated-field warnings of analyze_document that name table entry e
MigrationDeprecated(e) ==
    CountIf(result.out, LAMBDA f :
        f.field = e.field /\ f.reason = e.reason /\ f.action = e.action
        /\ f.severity = "warning")

\* the deprecated-field warnings of lint_document that name table entry e
LintDeprecatedCount(e) ==
    CountIf(result.out, LAMBDA f :
        f.severity = "warning" /\ f.suggestion = e.message
        /\ f.message = <<"Deprecated field">> \o e.path \o <<e.since>>)

\* C4 (as claimed): for every deprecated field path P of the document's kind,
\* the deprecated-field check emits exactly one warning naming P (with the
\* table's action or suggestion) iff P is present in the document, and none
\* otherwise.
C4_DeprecatedIffPresent ==
    /\ (Returned("analyze_document") /\ KindIn(DocKind, DEPRECATED_FIELDS)) =>
         \A i \in 1..Len(DEPRECATED_FIELDS[DocKind.s]) :
            LET e == DEPRECATED_FIELDS[DocKind.s][i]
            IN  MigrationDeprecated(e) = IF Present(doc, e.field) THEN 1 ELSE 0
    /\ (Returned("lint_document") /\ KindIn(DocKind, LINT_DEPRECATED_FIELDS)) =>
         \A i \in 1..Len(LINT_DEPRECATED_FIELDS[DocKind.s]) :
            LET e == LINT_DEPRECATED_FIELDS[DocKind.s][i]
            IN  LintDeprecatedCount(e) = IF Present(doc, e.path) THEN 1 ELSE 0

\* apiVersion, kind, metadata.name, spec.infrastructureRef{kind,name} and
\* spec.controlPlaneRef{kind} are all set and non-empty
MinimalValidCluster(d) ==
    /\ Present(d, <<"apiVersion">>)
    /\ ValueAt(d, <<"apiVersion">>).t = "str"
    /\ Truthy(ValueAt(d, <<"apiVersion">>))
    /\ Get(d, "kind", Null) = Str("Cluster")
    /\ \A p \in { <<"metadata", "name">>,
                  <<"spec", "infrastructureRef", "kind">>,
                  <<"spec", "infrastructureRef", "name">>,
                  <<"spec", "controlPlaneRef", "kind">> } :
          Present(d, p) /\ Truthy(ValueAt(d, p))

\* C7: validate_document on a Cluster with a non-empty apiVersion, metadata.name,
\* spec.infrastructureRef kind and name and spec.controlPlaneRef kind returns
\* normally and returns no finding of severity error.
C7_MinimalClusterNoErrors ==
    (op = "validate_document" /\ MinimalValidCluster(doc)) =>
        /\ ~result.raised
        /\ \A i \in 1..Len(result.out) : result.out[i].severity # "error"

\* C7 witness: such a Cluster was validated and got a finding (a warning).
C7_Witness ==
    /\ op = "validate_document"
    /\ MinimalValidCluster(doc)
    /\ Len(result.out) > 0

\* C10 (as claimed): no document check raises because of the document's
\* structure: validate_document, lint_document, analyze_document and get_nested
\* return normally on every mapping document.
C10_ChecksNeverRaise == ~result.raised

(***************************************************************************)
(* Properties of the reports (SpecReport).                                 *)
(***************************************************************************)
\* C1 (as claimed): after any sequence of add / add_violation calls the
\* report's severity counts sum to the number of its findings: for AuditReport
\* high_count + medium_count + low_count = len(findings), for ContractReport
\* the error, warning and info groups add up to len(violations).
C1_CountsSumToFindings ==
    /\ high_count(findings) + medium_count(findings) + low_count(findings) = Len(findings)
    /\ SeverityGroupSize(violations, "error") + SeverityGroupSize(violations, "warning")
           + SeverityGroupSize(violations, "info") = Len(violations)

(***************************************************************************)
(* Properties of the audit checks (SpecAudit).                             *)
(***************************************************************************)
\* spec.topology.controlPlane.replicas of the audited Cluster, Null when not set
ClusterReplicas ==
    IF Present(cluster, <<"spec", "topology", "controlPlane", "replicas">>)
    THEN ValueAt(cluster, <<"spec", "topology", "controlPlane", "replicas">>)
    ELSE Null

AfterCheckReplicas == apc = "related_resources"

IsHaFinding(f) == f.message.text = "Control plane has replica(s) (recommend 3 for HA)"
IsEvenFinding(f) == f.message.text = "Control plane has even number of replicas"

\* C5: check_replicas on a Cluster with spec.topology.controlPlane.replicas = 1
\* adds exactly one finding, the medium "recommend 3 for HA" one; with
\* replicas = 2 it adds exactly one even-replica finding, of low severity, and
\* no high-severity finding (the only other finding is the low "recommend 3
\* for HA" one); with replicas = 3 it adds no finding.
C5_ReplicaFindings ==
    AfterCheckReplicas =>
        /\ ClusterReplicas = Num(1) =>
              /\ Len(added) = 1
              /\ added[1].severity = "medium"
              /\ IsHaFinding(added[1])
        /\ ClusterReplicas = Num(2) =>
              /\ CountIf(added, IsEvenFinding) = 1
              /\ \A i \in 1..Len(added) :
                    /\ added[i].severity = "low"
                    /\ IsEvenFinding(added[i]) \/ IsHaFinding(added[i])
              /\ high_count(added) = 0
        /\ ClusterReplicas = Num(3) => added = <<>>

\* C5 witness: check_replicas has run on a Cluster with two control plane
\* replicas and added the even-replica finding to a report that already held
\* findings of the earlier checks.
C5_Witness ==
    /\ AfterCheckReplicas
    /\ ClusterReplicas = Num(2)
    /\ CountIf(added, IsEvenFinding) = 1
    /\ Len(findings) > Len(added)

(***************************************************************************)
(* Properties of the contract checks (SpecContract).                       *)
(***************************************************************************)
\* the contract each check function enforces
ContractOf ==
    [check_infrastructure_cluster |-> INFRASTRUCTURE_CLUSTER_CONTRACT,
     check_infrastructure_machine |-> INFRASTRUCTURE_MACHINE_CONTRACT,
     check_bootstrap_config |-> BOOTSTRAP_CONFIG_CONTRACT,
     check_control_plane |-> CONTROL_PLANE_CONTRACT]

RunCheckNamed(name, c) ==
    CASE name = "check_infrastructure_cluster" -> check_infrastructure_cluster(c)
      [] name = "check_infrastructure_machine" -> check_infrastructure_machine(c)
      [] name = "check_bootstrap_config" -> check_bootstrap_config(c)
      [] name = "check_control_plane" -> check_control_plane(c)

\* the names under schema.properties.<part>.properties of the served schema
ServedProps(c, part) == DOMAIN SectionProps(get_crd_schema(c), part).m

SeqRange(s) == {s[i] : i \in 1..Len(s)}

\* the served schema has every contract-required property except status.ready
LacksOnlyReady(c, contract) ==
    /\ Truthy(get_crd_schema(c))
    /\ "ready" \notin ServedProps(c, "status")
    /\ SeqRange(contract.required_spec_fields) \subseteq ServedProps(c, "spec")
    /\ SeqRange(contract.required_status_fields) \ {"ready"} \subseteq ServedProps(c, "status")

\* the schema with a `ready` property added under status.properties
SchemaWithReady(schema) ==
    LET top == Get(schema, "properties", EmptyMap)
        status == Get(top, "status", EmptyMap)
        props == Get(status, "properties", EmptyMap)
        props2 == Map(("ready" :> Map("type" :> Str("boolean"))) @@ props.m)
        status2 == Map(("properties" :> props2) @@ status.m)
        top2 == Map(("status" :> status2) @@ top.m)
    IN  Map(("properties" :> top2) @@ schema.m)

\* the CRD with `ready` added to the schema of every version
CrdWithReady(c) ==
    LET versions == c.m["spec"].m["versions"]
        versions2 ==
            List([i \in 1..Len(versions.q) |->
                    Map(("schema" :> Map("openAPIV3Schema" :>
                            SchemaWithReady(versions.q[i].m["schema"].m["openAPIV3Schema"])))
                        @@ versions.q[i].m)])
    IN  Map(("spec" :> Map(("versions" :> versions2) @@ c.m["spec"].m)) @@ c.m)

ReferencesStatusReady(v) ==
    /\ v.category = "Status"
    /\ v.message \in {<<"Missing required status field", "ready">>,
                      <<"Missing ready field in status">>}

\* C6: when the served schema of a CRD lacks `ready` under status.properties
\* and has every other property its contract requires, the contract check for
\* that CRD type adds exactly one violation of severity error, and it
\* references status.ready; the same check on the CRD with `ready` added to
\* the schema adds no ready violation and no error.
C6_MissingReadyOneError ==
    (cop \in DOMAIN ContractOf /\ LacksOnlyReady(crd, ContractOf[cop])) =>
        /\ error_count(violations) = 1
        /\ \A i \in 1..Len(violations) :
              violations[i].severity = "error" => ReferencesStatusReady(violations[i])
        /\ LET again == RunCheckNamed(cop, CrdWithReady(crd))
           IN  /\ error_count(again) = 0
               /\ \A i \in 1..Len(again) : ~ReferencesStatusReady(again[i])

\* C6 witness: check_infrastructure_cluster has run on a CRD whose served
\* schema has spec.controlPlaneEndpoint and a status section without ready,
\* and reported it.
C6_Witness ==
    /\ cop = "check_infrastructure_cluster"
    /\ LacksOnlyReady(crd, INFRASTRUCTURE_CLUSTER_CONTRACT)
    /\ "status" \in DOMAIN Get(get_crd_schema(crd), "properties", EmptyMap).m
    /\ error_count(violations) = 1

(***************************************************************************)
(* Properties of the exit codes of validate_manifests.py and               *)
(* lint_cluster_templates.py (SpecMain).                                   *)
(***************************************************************************)
\* the findings of the files analysed, by severity
FoundErrors == Len(SelectSeq(Flatten(results), LAMBDA s : s = "error"))
FoundWarnings == Len(SelectSeq(Flatten(results), LAMBDA s : s = "warning"))

\* 0 iff no error and (strict mode off or no warning), 1 otherwise
ExitByCounts ==
    IF FoundErrors = 0 /\ (~menv.strict \/ FoundWarnings = 0) THEN 0 ELSE 1

ExceptionBase ==
    [FileNotFoundError |-> "OSError",
     PermissionError |-> "OSError",
     IsADirectoryError |-> "OSError",
     OSError |-> "Exception",
     UnicodeDecodeError |-> "ValueError",
     JSONDecodeError |-> "ValueError",
     ValueError |-> "Exception",
     YAMLError |-> "Exception",
     TimeoutExpired |-> "Exception",
     CalledProcessError |-> "Exception",
     AttributeError |-> "Exception",
     TypeError |-> "Exception",
     Exception |-> "BaseException"]

\* isinstance(exc, cls), the test of an `except cls` clause
RECURSIVE IsInstance(_, _)
IsInstance(exc, cls) ==
    \/ exc = cls
    \/ exc \in DOMAIN ExceptionBase /\ IsInstance(ExceptionBase[exc], cls)

\* A file is what reading and parsing it yield: `read` and `parse` are "ok" or
\* the class of the exception read_text / yaml.safe_load_all raises,
\* `credentials` the number of its lines matching a BEST_PRACTICES pattern,
\* `docs` the documents safe_load_all yields.
File(read, parse, credentials, docs) ==
    [read |-> read, parse |-> parse, credentials |-> credentials, docs |-> docs]

\* What handling one file gives: the exception that leaves the function
\* ("none" when it returns), the number of documents handed to the document
\* check, the findings returned and the lines printed to stderr.
FileOutcome(exc, analysed, file_findings, stderr) ==
    [exc |-> exc, analysed |-> analysed, findings |-> file_findings, stderr |-> stderr]

\* the exception of a document check: a TypeError or an AttributeError
DocumentError == "TypeError"

\* the loop of validate_file over the documents
RECURSIVE ValidateDocuments(_, _, _)
ValidateDocuments(documents, doc_count, all_errors) ==
    IF documents = <<>> THEN FileOutcome("none", doc_count, all_errors, <<>>)
    ELSE IF Head(documents) = Null
    THEN ValidateDocuments(Tail(documents), doc_count, all_errors)
    ELSE LET errors == validate_document(Head(documents))
         IN  IF errors.raised
             THEN FileOutcome(DocumentError, doc_count + 1, all_errors, <<>>)
             ELSE ValidateDocuments(Tail(documents), doc_count + 1,
                                    all_errors \o errors.out)

\* the try block of validate_file
ValidateFileTry(file) ==
    IF file.read # "ok" THEN FileOutcome(file.read, 0, <<>>, <<>>)
    ELSE IF file.parse # "ok" THEN FileOutcome(file.parse, 0, <<>>, <<>>)
    ELSE ValidateDocuments(file.docs, 0, <<>>)

validate_file(file) ==
    LET t == ValidateFileTry(file)
    IN  IF t.exc = "none" THEN t
        ELSE IF IsInstance(t.exc, "YAMLError")
        THEN FileOutcome("none", t.analysed,
                 t.findings \o <<ValidationError(<<"<file>">>, <<"YAML parse error">>, "error")>>,
                 <<>>)
        ELSE IF IsInstance(t.exc, "OSError")
        THEN FileOutcome("none", t.analysed,
                 t.findings \o <<ValidationError(<<"<file>">>, <<"File read error">>, "error")>>,
                 <<>>)
        ELSE t

\* BEST_PRACTICES["namespace_specified"]["check"]: None when .get is missing
namespace_specified(d) ==
    IF ~HasGet(d) THEN Raise
    ELSE LET metadata == Get(d, "metadata", EmptyMap)
         IN  IF ~HasGet(metadata) THEN Raise
             ELSE Ok(<<Get(metadata, "namespace", Null) # Null>>)

\* the body of lint_content's loop over the parsed documents
LintContentDocument(d) ==
    IF ~Truthy(d) THEN Ok(<<>>)
    ELSE LET ns == namespace_specified(d)
         IN  IF ns.raised THEN Raise
             ELSE Then(Ok(IF ns.out[1] THEN <<>>
                          ELSE <<LintIssue("info",
                                   <<"No namespace specified - will use default">>, "")>>),
                       lint_document(d))

RECURSIVE LintDocuments(_, _, _)
LintDocuments(docs, linted, file_issues) ==
    IF docs = <<>> THEN FileOutcome("none", linted, file_issues, <<>>)
    ELSE LET r == LintContentDocument(Head(docs))
             n == IF Truthy(Head(docs)) THEN linted + 1 ELSE linted
         IN  IF r.raised THEN FileOutcome(DocumentError, n, file_issues, <<>>)
             ELSE LintDocuments(Tail(docs), n, file_issues \o r.out)

\* parse_yaml_documents: the documents that are not None
parse_yaml_documents(file) ==
    IF file.parse # "ok" THEN <<>>
    ELSE SelectSeq(file.docs, LAMBDA d : d # Null)

lint_content(file) ==
    IF file.parse # "ok"
    THEN IF IsInstance(file.parse, "YAMLError")
         THEN FileOutcome("none", 0, <<LintIssue("error", <<"YAML syntax error">>, "")>>, <<>>)
         ELSE FileOutcome(file.parse, 0, <<>>, <<>>)
    ELSE LintDocuments(parse_yaml_documents(file), 0,
             [i \in 1..file.credentials |->
                 LintIssue("warning", <<"Possible hardcoded credential detected">>, "")])

lint_file(file) ==
    IF file.read = "ok" THEN lint_content(file)
    ELSE IF IsInstance(file.read, "FileNotFoundError")
    THEN FileOutcome("none", 0, <<LintIssue("error", <<"File not found">>, "")>>, <<>>)
    ELSE IF IsInstance(file.read, "PermissionError")
    THEN FileOutcome("none", 0, <<LintIssue("error", <<"Permission denied">>, "")>>, <<>>)
    ELSE FileOutcome(file.read, 0, <<>>, <<>>)

\* the loop of analyze_file over the documents
RECURSIVE AnalyzeDocuments(_, _, _)
AnalyzeDocuments(documents, analysed, all_issues) ==
    IF documents = <<>> THEN FileOutcome("none", analysed, all_issues, <<>>)
    ELSE IF Head(documents) = Null
    THEN AnalyzeDocuments(Tail(documents), analysed, all_issues)
    ELSE LET r == analyze_document(Head(documents))
         IN  IF r.raised THEN FileOutcome(DocumentError, analysed + 1, all_issues, <<>>)
             ELSE AnalyzeDocuments(Tail(documents), analysed + 1, all_issues \o r.out)

\* the try block of analyze_file
AnalyzeFileTry(file) ==
    IF file.read # "ok" THEN FileOutcome(file.read, 0, <<>>, <<>>)
    ELSE IF file.parse # "ok" THEN FileOutcome(file.parse, 0, <<>>, <<>>)
    ELSE AnalyzeDocuments(file.docs, 0, <<>>)

analyze_file(file) ==
    LET t == AnalyzeFileTry(file)
    IN  IF t.exc = "none" THEN t
        ELSE IF IsInstance(t.exc, "YAMLError")
        THEN FileOutcome("none", t.analysed, t.findings, <<"YAML parse error in">>)
        ELSE IF IsInstance(t.exc, "OSError")
        THEN FileOutcome("none", t.analysed, t.findings, <<"File read error">>)
        ELSE t

\* the function each script's main calls on a file
HandleFile(script, file) ==
    CASE script = "validate_manifests" -> validate_file(file)
      [] script = "lint_cluster_templates" -> lint_file(file)
      [] script = "migration_checker" -> analyze_file(file)

(***************************************************************************)
(* SpecFiles: the loop of one script's main over the files it is given.    *)
(***************************************************************************)
MaxRunFiles == 2
MaxFileDocs == 2

FileScripts == {"validate_manifests", "lint_cluster_templates", "migration_checker"}

\* a Cluster with nothing to report but its missing references, a Cluster of
\* a deprecated API version, and a document whose metadata is null
FileDocs ==
    {Null,
     Map(("apiVersion" :> Str("cluster.x-k8s.io/v1beta1")) @@ ("kind" :> Str("Cluster"))
         @@ ("metadata" :> Map("name" :> Str("c1")))
         @@ ("spec" :> Map("topology" :> Map("rolloutAfter" :> Str("2024-01-01"))))),
     Map(("apiVersion" :> Str("cluster.x-k8s.io/v1beta1")) @@ ("kind" :> Str("Cluster"))
         @@ ("metadata" :> Null))}

ReadErrors ==
    {"FileNotFoundError", "PermissionError", "IsADirectoryError", "UnicodeDecodeError"}

Files ==
    {File("ok", "ok", c, ds) : c \in 0..1, ds \in SeqsUpTo(FileDocs, MaxFileDocs)}
    \cup {File("ok", "YAMLError", c, <<>>) : c \in 0..1}
    \cup {File(e, "ok", 0, <<>>) : e \in ReadErrors}

InitFiles ==
    /\ fenv \in [script : FileScripts, files : SeqsUpTo(Files, MaxRunFiles)]
    /\ fpc = "files"
    /\ fresults = <<>>
    /\ IdleAnalyses /\ IdleTools
    /\ IdleFetch /\ IdleUsage /\ IdleExport /\ IdleKubectl /\ IdlePlan

\* one iteration of main's loop over the files; an exception that leaves the
\* file function leaves main
NextFile ==
    /\ fpc = "files"
    /\ Len(fresults) < Len(fenv.files)
    /\ LET r == HandleFile(fenv.script, fenv.files[Len(fresults) + 1])
       IN  /\ fresults' = Append(fresults, r)
           /\ fpc' = IF r.exc # "none" THEN "raised" ELSE "files"
    /\ UNCHANGED <<fenv, analysisVars, toolVars, fetchVars, usageVars, exportVars, kubectlVars, planVars>>

\* the loop is over: main goes on to its summary
FilesDone ==
    /\ fpc = "files"
    /\ Len(fresults) = Len(fenv.files)
    /\ fpc' = "summary"
    /\ UNCHANGED <<fenv, fresults, analysisVars, toolVars, fetchVars, usageVars, exportVars,
                   kubectlVars, planVars>>

NextFiles == NextFile \/ FilesDone

SpecFiles == InitFiles /\ [][NextFiles]_vars

(***************************************************************************)
(* Properties of the runs over files (SpecFiles).                          *)
(***************************************************************************)
\* the file cannot be read or its YAML cannot be parsed
Unusable(file) == file.read # "ok" \/ file.parse # "ok"

\* the outcome reports a parse or read error of the file
HasParseDiagnostic(r) ==
    \/ r.stderr # <<>>
    \/ \E i \in 1..Len(r.findings) :
          /\ "message" \in DOMAIN r.findings[i]
          /\ r.findings[i].message \in
                {<<"YAML parse error">>, <<"File read error">>, <<"YAML syntax error">>,
                 <<"File not found">>, <<"Permission denied">>}

\* no document check raises on a document of the file
ChecksReturn(script, file) ==
    \A i \in 1..Len(file.docs) :
        file.docs[i] # Null =>
            CASE script = "validate_manifests" -> ~validate_document(file.docs[i]).raised
              [] script = "lint_cluster_templates" -> ~LintContentDocument(file.docs[i]).raised
              [] script = "migration_checker" -> ~analyze_document(file.docs[i]).raised

\* C11 (as claimed): in a run over a sequence of files on whose documents no
\* check raises, the loop is never left by an exception; a file that cannot be
\* read or parsed contributes a parse-error diagnostic and none of its
\* documents is analysed, and every other file is analysed: each of its
\* documents is handed to the document check.
C11_ParseFailureNeverAborts ==
    (\A i \in 1..Len(fenv.files) : ChecksReturn(fenv.script, fenv.files[i])) =>
        /\ fpc # "raised"
        /\ \A i \in 1..Len(fresults) :
              IF Unusable(fenv.files[i])
              THEN HasParseDiagnostic(fresults[i]) /\ fresults[i].analysed = 0
              ELSE fresults[i].analysed =
                       Len(SelectSeq(fenv.files[i].docs, LAMBDA d : d # Null))

(***************************************************************************)
(* kubectl: what a kubectl process does and what the scripts make of it.   *)
(***************************************************************************)
\* stdout of a process: text that json.loads rejects ("empty", "garbage") or
\* the text of the JSON value `data`
Stdout(text, data) == [text |-> text, data |-> data]
JsonText(data) == Stdout("json", data)

\* subprocess.run(cmd, capture_output=True, text=True, timeout=...): the
\* process ran out of time, or ended with returncode and stdout
Process(timed_out, returncode, stdout) ==
    [timed_out |-> timed_out, returncode |-> returncode, stdout |-> stdout]

\* what a call gives: the exception that leaves it ("none" when it returns)
\* and the value returned
Returns(out) == [exc |-> "none", out |-> out]
Throws(exc) == [exc |-> exc, out |-> Null]

\* json.loads(stdout)
json_loads(stdout) ==
    IF stdout.text = "json" THEN Returns(stdout.data) ELSE Throws("JSONDecodeError")

\* `"List" not in data.get("kind", "")`
KindIsNotList(data) == ~StrContains("List", Get(data, "kind", Str("")).s)

\* A variant of the try block that never wraps a single object into a list.
AuditKubectlItemsOnly(proc) ==
    IF proc.timed_out THEN Throws("TimeoutExpired")
    ELSE IF proc.returncode # 0 THEN Returns(List(<<>>))
    ELSE LET data == json_loads(proc.stdout)
         IN  IF data.exc # "none" THEN data
             ELSE Returns(Get(data.out, "items", List(<<>>)))

\* the try block of audit_security.run_kubectl_json
AuditKubectlTry(proc) ==
    IF proc.timed_out THEN Throws("TimeoutExpired")
    ELSE IF proc.returncode # 0 THEN Returns(List(<<>>))
    ELSE LET data == json_loads(proc.stdout)
         IN  IF data.exc # "none" THEN data
             ELSE IF ~HasGet(data.out) THEN Throws("AttributeError")
             ELSE LET items == Get(data.out, "items", List(<<>>))
                  IN  IF ~Truthy(items) /\ In("kind", data.out) /\ KindIsNotList(data.out)
                      THEN Returns(List(<<data.out>>))
                      ELSE Returns(items)

\* audit_security.run_kubectl_json; found: shutil.which found kubectl
audit_security_run_kubectl_json(found, proc) ==
    IF ~found THEN Returns(List(<<>>))
    ELSE LET t == AuditKubectlTry(proc)
         IN  IF IsInstance(t.exc, "TimeoutExpired") \/ IsInstance(t.exc, "JSONDecodeError")
             THEN Returns(List(<<>>))
             ELSE t

\* the try block of analyze_conditions.run_kubectl_json
ConditionsKubectlTry(proc) ==
    IF proc.timed_out THEN Throws("TimeoutExpired")
    ELSE IF proc.returncode # 0 THEN Returns(List(<<>>))
    ELSE LET data == json_loads(proc.stdout)
         IN  IF data.exc # "none" THEN data
             ELSE IF ~HasGet(data.out) THEN Throws("AttributeError")
             ELSE Returns(Get(data.out, "items",
                              IF In("kind", data.out) /\ KindIsNotList(data.out)
                              THEN List(<<data.out>>) ELSE List(<<>>)))

\* analyze_conditions.run_kubectl_json
analyze_conditions_run_kubectl_json(found, proc) ==
    IF ~found THEN Returns(List(<<>>))
    ELSE LET t == ConditionsKubectlTry(proc)
         IN  IF IsInstance(t.exc, "TimeoutExpired") \/ IsInstance(t.exc, "JSONDecodeError")
             THEN Returns(List(<<>>))
             ELSE t

\* timeline_events.run_kubectl: (success, stdout)
run_kubectl(found, proc) ==
    IF ~found THEN [success |-> FALSE, stdout |-> Stdout("empty", Null)]
    ELSE IF proc.timed_out THEN [success |-> FALSE, stdout |-> Stdout("empty", Null)]
    ELSE [success |-> proc.returncode = 0, stdout |-> proc.stdout]

(***************************************************************************)
(* The loops over resource types: analyze_live_resources, run_audit and    *)
(* get_condition_events.                                                   *)
(***************************************************************************)
\* What handling one resource type gives: the exception that leaves the
\* function, the number of items fetched, and what their analysis found.
TypeOutcome(exc, items, found_issues) ==
    [exc |-> exc, items |-> items, issues |-> found_issues]

\* the resource_types list of analyze_live_resources
LiveResourceTypes ==
    <<"clusters.cluster.x-k8s.io",
      "machines.cluster.x-k8s.io",
      "machinesets.cluster.x-k8s.io",
      "machinedeployments.cluster.x-k8s.io",
      "machinepools.cluster.x-k8s.io",
      "kubeadmconfigs.bootstrap.cluster.x-k8s.io",
      "kubeadmcontrolplanes.controlplane.cluster.x-k8s.io">>

\* the resources list of get_condition_events; the first is fetched by name
ConditionResources ==
    <<"clusters.cluster.x-k8s.io",
      "machines.cluster.x-k8s.io",
      "machinedeployments.cluster.x-k8s.io",
      "kubeadmcontrolplanes.controlplane.cluster.x-k8s.io">>

\* what run_audit fetches: the clusters, then for each cluster its related
\* resources
AuditResources ==
    <<"clusters.cluster.x-k8s.io",
      "kubeadmcontrolplanes.controlplane.cluster.x-k8s.io",
      "machines.cluster.x-k8s.io",
      "secrets">>

\* the loop of analyze_live_resources over the items of one type
RECURSIVE LiveItems(_, _, _)
LiveItems(items, n, all_issues) ==
    IF items = <<>> THEN TypeOutcome("none", n, all_issues)
    ELSE IF ~HasGet(Head(items)) THEN TypeOutcome("AttributeError", n, all_issues)
    ELSE LET r == analyze_document(Head(items))
         IN  IF r.raised THEN TypeOutcome(DocumentError, n, all_issues)
             ELSE LiveItems(Tail(items), n + 1, all_issues \o r.out)

\* the try block of analyze_live_resources' loop body
LiveTypeTry(proc) ==
    IF proc.timed_out THEN TypeOutcome("TimeoutExpired", 0, <<>>)
    ELSE IF proc.returncode # 0 THEN TypeOutcome("none", 0, <<>>)
    ELSE LET data == json_loads(proc.stdout)
         IN  IF data.exc # "none" THEN TypeOutcome(data.exc, 0, <<>>)
             ELSE IF ~HasGet(data.out) THEN TypeOutcome("AttributeError", 0, <<>>)
             ELSE LET items == Get(data.out, "items", List(<<>>))
                  IN  IF items.t # "list" THEN TypeOutcome("TypeError", 0, <<>>)
                      ELSE LiveItems(items.q, 0, <<>>)

\* the body of analyze_live_resources' loop: `except (..., Exception)`
LiveType(proc) ==
    LET t == LiveTypeTry(proc)
    IN  IF IsInstance(t.exc, "Exception") THEN TypeOutcome("none", t.items, t.issues)
        ELSE t

\* the pseudo-events get_condition_events makes of one item: one for each
\* condition with a lastTransitionTime
ConditionEvents(item) ==
    LET status == Get(item, "status", EmptyMap)
        direct == Get(status, "conditions", List(<<>>))
        conditions ==
            IF Truthy(direct) THEN direct
            ELSE Get(Get(status, "v1beta2", EmptyMap), "conditions", List(<<>>))
    IN  SelectSeq(conditions.q, LAMBDA c : Truthy(Get(c, "lastTransitionTime", Str(""))))

\* the items get_condition_events gets for one resource: by name
\* `[json.loads(stdout)] if success and stdout else []`, by label
\* `json.loads(stdout).get("items", []) if success else []` in a try
ConditionItems(specific_name, found, proc) ==
    LET k == run_kubectl(found, proc)
    IN  IF specific_name
        THEN IF k.success /\ k.stdout.text # "empty"
             THEN LET data == json_loads(k.stdout)
                  IN  IF data.exc # "none" THEN data ELSE Returns(List(<<data.out>>))
             ELSE Returns(List(<<>>))
        ELSE IF ~k.success THEN Returns(List(<<>>))
             ELSE LET data == json_loads(k.stdout)
                  IN  IF IsInstance(data.exc, "JSONDecodeError") THEN Returns(List(<<>>))
                      ELSE IF ~HasGet(data.out) THEN Throws("AttributeError")
                      ELSE Returns(Get(data.out, "items", List(<<>>)))

\* the body of get_condition_events' loop
ConditionType(specific_name, found, proc) ==
    LET items == ConditionItems(specific_name, found, proc)
    IN  IF items.exc # "none" THEN TypeOutcome(items.exc, 0, <<>>)
        ELSE TypeOutcome("none", Len(items.out.q),
                 Flatten([i \in 1..Len(items.out.q) |-> ConditionEvents(items.out.q[i])]))

\* `any(ref.get("name") == cluster_name for ref in owner_refs)`
OwnedBy(kcp, cluster_name) ==
    LET owner_refs == Get(Get(kcp, "metadata", EmptyMap), "ownerReferences", List(<<>>))
    IN  \E i \in 1..Len(owner_refs.q) : Get(owner_refs.q[i], "name", Null) = cluster_name

\* `labels.get("cluster.x-k8s.io/cluster-name") == cluster_name`
LabelledFor(item, cluster_name) ==
    LET labels == Get(Get(item, "metadata", EmptyMap), "labels", EmptyMap)
    IN  Get(labels, "cluster.x-k8s.io/cluster-name", Null) = cluster_name

\* one fetch of run_audit: the clusters are checked by the three cluster
\* checks, the related resources are selected by owner or label
AuditType(resource_type, found, proc) ==
    LET items == audit_security_run_kubectl_json(found, proc)
    IN  IF items.exc # "none" THEN TypeOutcome(items.exc, 0, <<>>)
        ELSE IF resource_type = "clusters.cluster.x-k8s.io"
        THEN LET checks == [i \in 1..Len(items.out.q) |->
                               Then(Then(check_pss_configuration(items.out.q[i]),
                                         check_network_security(items.out.q[i])),
                                    check_replicas(items.out.q[i]))]
             IN  IF \E i \in 1..Len(checks) : checks[i].raised
                 THEN TypeOutcome(DocumentError, Len(items.out.q), <<>>)
                 ELSE TypeOutcome("none", Len(items.out.q),
                                  Flatten([i \in 1..Len(checks) |-> checks[i].out]))
        ELSE TypeOutcome("none", Len(items.out.q),
                 SelectSeq(items.out.q,
                     LAMBDA item : IF resource_type =
                                        "kubeadmcontrolplanes.controlplane.cluster.x-k8s.io"
                                   THEN OwnedBy(item, Str("c1"))
                                   ELSE LabelledFor(item, Str("c1"))))

(***************************************************************************)
(* SpecFetch: one run of a loop over resource types.                       *)
(***************************************************************************)
MaxFailedFetches == 2

FetchScripts == {"migration_checker", "audit_security", "timeline_events"}

ResourceTypes(script) ==
    CASE script = "migration_checker" -> LiveResourceTypes
      [] script = "audit_security" -> AuditResources
      [] script = "timeline_events" -> ConditionResources

\* a resource of the cluster c1 as kubectl prints it; it belongs to no
\* cluster by owner reference or label
FetchedItem(kind) ==
    Map(("apiVersion" :> Str("cluster.x-k8s.io/v1beta1")) @@ ("kind" :> Str(kind))
        @@ ("metadata" :> Map("name" :> Str("c1")))
        @@ ("spec" :> Map("topology" :> Map("rolloutAfter" :> Str("2024-01-01"))))
        @@ ("status" :> Map("conditions" :> List(<<
                Map(("type" :> Str("Ready")) @@ ("status" :> Str("True"))
                    @@ ("lastTransitionTime" :> Str("2024-01-01T00:00:00Z")))>>))))

ListWrapper(items) == Map(("kind" :> Str("List")) @@ ("items" :> List(items)))

\* what kubectl prints when the fetch works: the object when it is asked for
\* by name, a List of one item otherwise
GoodProcess(by_name) ==
    Process(FALSE, 0, JsonText(IF by_name THEN FetchedItem("Cluster")
                               ELSE ListWrapper(<<FetchedItem("Cluster")>>)))

\* the ways a fetch fails with kubectl present
FailedProcesses ==
    {Process(TRUE, 0, Stdout("empty", Null)),
     Process(FALSE, 1, Stdout("empty", Null)),
     Process(FALSE, 0, Stdout("garbage", Null)),
     Process(FALSE, 0, Stdout("empty", Null))}

\* get_condition_events asks for the cluster by name
FetchedByName(script, i) == script = "timeline_events" /\ i = 1

\* the answers to the fetches of a script: at most MaxFailedFetches fail
FetchAnswers(script) ==
    LET n == Len(ResourceTypes(script))
        failing == {S \in SUBSET (1..n) : Cardinality(S) <= MaxFailedFetches}
    IN  UNION {{[i \in 1..n |-> IF i \in S THEN f[i]
                                ELSE GoodProcess(FetchedByName(script, i))] :
                   f \in [S -> FailedProcesses]} : S \in failing}

FetchEnvs ==
    UNION {[script : {s}, kubectl_found : BOOLEAN, answers : FetchAnswers(s)] :
              s \in FetchScripts}

InitFetch ==
    /\ kenv \in FetchEnvs
    /\ kpc = "start"
    /\ kfetched = <<>>
    /\ kissues = <<>>
    /\ IdleAnalyses /\ IdleTools
    /\ IdleFiles /\ IdleUsage /\ IdleExport /\ IdleKubectl /\ IdlePlan

FetchUnchanged ==
    UNCHANGED <<kenv, analysisVars, toolVars, fileVars, usageVars, exportVars, kubectlVars, planVars>>

\* the head of the function: analyze_live_resources returns at once when
\* kubectl is not found, the other two leave that to each fetch
FetchStart ==
    /\ kpc = "start"
    /\ kpc' = IF kenv.script = "migration_checker" /\ ~kenv.kubectl_found
              THEN "returned" ELSE "fetch"
    /\ UNCHANGED <<kfetched, kissues>>
    /\ FetchUnchanged

\* the body of the loop for the next resource type
FetchOne(script, i) ==
    CASE script = "migration_checker" -> LiveType(kenv.answers[i])
      [] script = "audit_security" ->
            AuditType(ResourceTypes(script)[i], kenv.kubectl_found, kenv.answers[i])
      [] script = "timeline_events" ->
            ConditionType(FetchedByName(script, i), kenv.kubectl_found, kenv.answers[i])

\* one iteration: the type is fetched and its items are analysed; run_audit
\* has nothing more to fetch when it got no cluster
FetchType ==
    /\ kpc = "fetch"
    /\ LET i == Len(kfetched) + 1
           r == FetchOne(kenv.script, i)
       IN  /\ kfetched' = Append(kfetched, ResourceTypes(kenv.script)[i])
           /\ kissues' = Append(kissues, r)
           /\ kpc' = IF r.exc # "none" THEN "raised"
                     ELSE IF i = Len(ResourceTypes(kenv.script)) THEN "returned"
                     ELSE IF kenv.script = "audit_security" /\ i = 1 /\ r.items = 0
                     THEN "returned"
                     ELSE "fetch"
    /\ FetchUnchanged

NextFetch == FetchStart \/ FetchType

SpecFetch == InitFetch /\ [][NextFetch]_vars

(***************************************************************************)
(* Properties of the loops over resource types (SpecFetch).                *)
(***************************************************************************)
\* C12 (as claimed): a run over resource types is never left by an exception,
\* the types are fetched in list order, a failed fetch counts as zero items,
\* and when the run has returned with kubectl present every type of the list
\* was fetched (for run_audit: when the fetch of the clusters gave a cluster).
C12_FailedFetchIsZeroItems ==
    /\ kpc # "raised"
    /\ \A i \in 1..Len(kfetched) :
          /\ kfetched[i] = ResourceTypes(kenv.script)[i]
          /\ (~kenv.kubectl_found \/ kenv.answers[i] \in FailedProcesses)
                => kissues[i].items = 0
    /\ (/\ kpc = "returned"
        /\ kenv.kubectl_found
        /\ kenv.script = "audit_security" => kenv.answers[1] \notin FailedProcesses)
          => kfetched = ResourceTypes(kenv.script)

(***************************************************************************)
(* SpecUsage: how the mains of migration_checker.py,                       *)
(* lint_cluster_templates.py and compare_versions.py treat their command   *)
(* line.                                                                   *)
(***************************************************************************)
\* main has returned `status` after telling the user `said` ("help": the
\* usage text, "error": an error message, "output": its normal output)
Exit(status, said) == <<[status |-> status, said |-> said]>>

\* the command lines: an option that is not given is "none" or FALSE; found
\* are the severities of the issues the selected inputs give
MigrationCommands ==
    {e \in [script : {"migration_checker"}, file : {"none", "f.yaml"},
            dir : {"none", "d"}, recursive : BOOLEAN, live : BOOLEAN,
            namespace : {"none", "ns"}, found : SeqsUpTo({"warning", "info"}, 1)] :
        (e.file = "none" /\ e.dir = "none" /\ ~e.live) => e.found = <<>>}

LintCommands ==
    [script : {"lint_cluster_templates"}, files : {<<>>, <<"f.yaml">>},
     dir : {"none", "d"}, assets : BOOLEAN, strict : BOOLEAN, verbose : BOOLEAN,
     format : {"text", "json"}]

CompareCommands ==
    [script : {"compare_versions"}, from_version : {"none", "v1.6.0", "1.6.0"},
     to_version : {"none", "v1.7.0"}, list : BOOLEAN, checklist : BOOLEAN,
     format : {"text", "json"}, output : {"none", "out.json"}]

InitUsage ==
    /\ uenv \in MigrationCommands \cup LintCommands \cup CompareCommands
    /\ upc = "start"
    /\ uexit = <<>>
    /\ IdleAnalyses /\ IdleTools
    /\ IdleFiles /\ IdleFetch /\ IdleExport /\ IdleKubectl /\ IdlePlan

UsageUnchanged ==
    UNCHANGED <<uenv, analysisVars, toolVars, fileVars, fetchVars, exportVars, kubectlVars, planVars>>

\* migration_checker.main: "if not all_issues and not args.live and not
\* args.file and not args.dir: parser.print_help(); return 0"
MigrationUsage(args, all_issues) ==
    IF all_issues = <<>> /\ ~args.live /\ args.file = "none" /\ args.dir = "none"
    THEN Exit(0, "help")
    ELSE <<>>

\* migration_checker.main: "Return non-zero if there are warnings"
MigrationExitCode(all_issues) ==
    IF \E i \in 1..Len(all_issues) : all_issues[i] = "warning" THEN 1 ELSE 0

\* migration_checker.main: the analysis of the selected inputs, the usage
\* test that follows it, the report and the exit code
MigrationMain ==
    /\ uenv.script = "migration_checker"
    /\ upc = "start"
    /\ LET all_issues == uenv.found
           usage == MigrationUsage(uenv, all_issues)
       IN  uexit' = IF usage # <<>> THEN usage
                    ELSE Exit(MigrationExitCode(all_issues), "output")
    /\ upc' = "returned"
    /\ UsageUnchanged

\* lint_cluster_templates.main: "if not args.files and not args.dir and not
\* args.assets: parser.print_help(); return 1"
LintUsage(args) ==
    IF args.files = <<>> /\ args.dir = "none" /\ ~args.assets
    THEN Exit(1, "help")
    ELSE <<>>

\* lint_cluster_templates.main up to the linting of the selected files
LintMain ==
    /\ uenv.script = "lint_cluster_templates"
    /\ upc = "start"
    /\ uexit' = LintUsage(uenv)
    /\ upc' = IF LintUsage(uenv) # <<>> THEN "returned" ELSE "analysis"
    /\ UsageUnchanged

\* compare_versions.main: "if args.list" and "if not args.from_version or
\* not args.to_version"
CompareUsage(args) ==
    IF args.list THEN Exit(0, "output")
    ELSE IF args.from_version = "none" \/ args.to_version = "none"
    THEN Exit(1, "error")
    ELSE <<>>

\* compare_versions.main up to the comparison
CompareMain ==
    /\ uenv.script = "compare_versions"
    /\ upc = "start"
    /\ uexit' = CompareUsage(uenv)
    /\ upc' = IF CompareUsage(uenv) # <<>> THEN "returned" ELSE "analysis"
    /\ UsageUnchanged

NextUsage == MigrationMain \/ LintMain \/ CompareMain

SpecUsage == InitUsage /\ [][NextUsage]_vars

(***************************************************************************)
(* Properties of the usage errors (SpecUsage).                             *)
(***************************************************************************)
\* the command line selects no input
NoInputSelected(args) ==
    CASE args.script = "migration_checker" ->
            args.file = "none" /\ args.dir = "none" /\ ~args.live
      [] args.script = "lint_cluster_templates" ->
            args.files = <<>> /\ args.dir = "none" /\ ~args.assets
      [] args.script = "compare_versions" ->
            ~args.list /\ (args.from_version = "none" \/ args.to_version = "none")

\* C13 (as claimed): a main invoked with no input selected (migration_checker
\* with none of --file, --dir, --live; lint_cluster_templates with no files,
\* --dir or --assets; compare_versions without both versions) returns before
\* any analysis, with a non-zero exit code and a message for the user.
C13_UsageErrorIsNonZero ==
    (upc # "start" /\ NoInputSelected(uenv)) =>
        /\ upc = "returned"
        /\ uexit[1].status # 0
        /\ uexit[1].said \in {"help", "error"}

(***************************************************************************)
(* Properties of repeated document checks (SpecDocs).                      *)
(***************************************************************************)
CalledTwice == "again" \in DOMAIN result

ExtendsByOne(fs1, fs2) ==
    /\ Len(fs2) = Len(fs1) + 1
    /\ SubSeq(fs2, 1, Len(fs1)) = fs1

\* C15: each add / add_violation call makes the report's list one longer,
\* puts the new finding last and leaves the earlier findings as they were and
\* where they were; this holds also when the finding equals one already in
\* the list (no deduplication), and no step reorders the stored list.
C15_FindingsAppendOnly ==
    [][/\ findings' # findings =>
             /\ ExtendsByOne(findings, findings')
             /\ findings'[Len(findings')].severity \in AuditSeverities
       /\ violations' # violations =>
             /\ ExtendsByOne(violations, violations')
             /\ violations'[Len(violations')].severity \in ViolationSeverities
       /\ (findings' = findings /\ violations' = violations) => UNCHANGED vars]_vars

\* C15 witness: add was called with a finding identical to one already in
\* the report, after a finding of lower severity, and both are kept in call
\* order.
C15_Witness ==
    /\ Len(findings) = 3
    /\ findings[1].severity = "low"
    /\ findings[2].severity = "high"
    /\ findings[3] = findings[2]


(***************************************************************************)
(* export_cluster_state.py: clean_resource                                 *)
(***************************************************************************)
fields_to_remove ==
    {"uid", "resourceVersion", "generation", "creationTimestamp", "managedFields", "selfLink"}

anno_prefixes_to_remove == {"kubectl.kubernetes.io/", "deployment.kubernetes.io/"}

\* for k in ks: d.pop(k, None)
DictDrop(m, ks) == [j \in DOMAIN m \ ks |-> m[j]]

\* d[k] = v
DictSet(m, k, v) == [j \in DOMAIN m \cup {k} |-> IF j = k THEN v ELSE m[j]]

\* any(k.startswith(prefix) for prefix in anno_prefixes_to_remove)
RuntimeAnnotation(k) == \E prefix \in anno_prefixes_to_remove : StartsWith(k, prefix)

\* a variant of clean_resource that leaves metadata.ownerReferences in place
CleanKeepingOwners(resource, preserve_status) ==
    LET metadata0 == Get(resource, "metadata", EmptyMap)
        metadata1 == DictDrop(metadata0.m, fields_to_remove)
        cleaned == DictSet(resource.m, "metadata", Map(metadata1))
    IN  Ok(Map(IF ~preserve_status THEN DictDrop(cleaned, {"status"}) ELSE cleaned))

\* clean_resource(resource, preserve_status) works on a deep copy: the result is a
\* new value.  metadata.pop and annotations.items exist only on dicts.
clean_resource(resource, preserve_status) ==
    LET metadata0 == Get(resource, "metadata", EmptyMap)
    IN  IF ~HasGet(metadata0) THEN Raise
        ELSE
        LET metadata1 == DictDrop(metadata0.m, fields_to_remove)
            annotations0 == Get(Map(metadata1), "annotations", EmptyMap)
        IN  IF ~HasGet(annotations0) THEN Raise
            ELSE
            LET annotations ==
                    Map([k \in {j \in DOMAIN annotations0.m : ~RuntimeAnnotation(j)}
                            |-> annotations0.m[k]])
                metadata2 ==
                    IF Truthy(annotations)
                    THEN DictSet(metadata1, "annotations", annotations)
                    ELSE DictDrop(metadata1, {"annotations"})
                metadata == DictDrop(metadata2, {"ownerReferences"})
                cleaned == DictSet(resource.m, "metadata", Map(metadata))
            IN  Ok(Map(IF ~preserve_status THEN DictDrop(cleaned, {"status"}) ELSE cleaned))

\* A copy that shares the nested objects with its original, as copy.copy makes.
ShallowCopy == "nested"

\* copy.deepcopy(resource): the copy shares no object with the resource
DeepCopy == "nothing"

\* The caller's resource after clean_resource has worked on `cleaned`, a copy
\* that shares `shared` with it: the pops and the assignment on metadata act on
\* the resource's own metadata when the nested objects are shared, and
\* `cleaned["metadata"] = ...` and `cleaned.pop("status")` too when cleaned is
\* the resource itself.
ResourceAfter(resource, returned, shared) ==
    IF returned.raised THEN resource
    ELSE CASE shared = "nothing" -> resource
           [] shared = "nested" ->
                IF "metadata" \in DOMAIN resource.m
                THEN Map(DictSet(resource.m, "metadata", returned.out.m["metadata"]))
                ELSE resource
           [] OTHER -> returned.out

(***************************************************************************)
(* SpecClean: clean_resource applied to one resource as kubectl prints it. *)
(***************************************************************************)
MaxRuntimeFields == 2

\* metadata fields of an object as the API server returns it
RuntimeFieldValues ==
    [uid |-> Str("0a1b"), resourceVersion |-> Str("10"), generation |-> Num(3),
     creationTimestamp |-> Str("10s"), managedFields |-> List(<<EmptyMap>>),
     selfLink |-> Str("v1"), ownerReferences |-> List(<<Map([uid |-> Str("0a1b")])>>)]

KeptFieldValues ==
    [name |-> Str("c1"), namespace |-> Str("v1"),
     labels |-> Map([uid |-> Str("10")]), finalizers |-> List(<<Str("v1")>>)]

AnnotationValues ==
    ("kubectl.kubernetes.io/last-applied-configuration" :> Str("10"))
 @@ ("deployment.kubernetes.io/revision" :> Str("10"))
 @@ ("cluster.x-k8s.io/paused" :> Str(""))
 @@ ("kubectl.kubernetes.io" :> Str("v1"))

RuntimeFieldSets ==
    {S \in SUBSET DOMAIN RuntimeFieldValues :
        Cardinality(S) <= MaxRuntimeFields \/ S = DOMAIN RuntimeFieldValues}

\* the annotations of an object: none, or some of the annotations above
AnnotationMaps == {Map([k \in S |-> AnnotationValues[k]]) : S \in SUBSET DOMAIN AnnotationValues}

MetadataMaps ==
    { Map([k \in R \cup K \cup A |->
            IF k \in R THEN RuntimeFieldValues[k]
            ELSE IF k \in K THEN KeptFieldValues[k]
            ELSE a]) :
        R \in RuntimeFieldSets,
        K \in {{}, {"name"}, {"name", "namespace", "labels", "finalizers"}},
        <<A, a>> \in {<<{}, Null>>} \cup {<<{"annotations"}, am>> : am \in AnnotationMaps} }

\* spec and status carry fields named like the runtime fields of metadata
TopLevelValues ==
    [kind |-> Str("Machine"),
     spec |-> Map([uid |-> Str("0a1b"), status |-> Str("v1"), metadata |-> Map([uid |-> Str("10")]),
                   infrastructureRef |-> Map([kind |-> Str("DockerCluster"), name |-> Str("c1")]),
                   controlPlaneRef |-> Map([kind |-> Str("KubeadmControlPlane"), name |-> Str("c1")])]),
     status |-> Map([phase |-> Str("Running"), generation |-> Num(3)])]

CleanResources ==
    { Map([k \in T \cup M |-> IF k \in T THEN TopLevelValues[k] ELSE md]) :
        T \in SUBSET DOMAIN TopLevelValues,
        <<M, md>> \in {<<{}, Null>>} \cup {<<{"metadata"}, mm>> : mm \in MetadataMaps} }

InitClean ==
    /\ cin \in [resource : CleanResources, preserve_status : BOOLEAN]
    /\ cpc = "call"
    /\ cout = <<>>
    /\ carg = cin.resource
    /\ IdleAnalyses /\ IdleTools
    /\ IdleFiles /\ IdleFetch /\ IdleUsage /\ IdleExportRun /\ IdleKubectl /\ IdlePlan

Clean ==
    /\ cpc = "call"
    /\ cout' = <<clean_resource(cin.resource, cin.preserve_status)>>
    /\ cpc' = "done"
    /\ carg' = ResourceAfter(carg, clean_resource(cin.resource, cin.preserve_status), DeepCopy)
    /\ UNCHANGED <<cin, exportRunVars, analysisVars, toolVars, fileVars, fetchVars, usageVars,
                   kubectlVars, planVars>>

NextClean == Clean

SpecClean == InitClean /\ [][NextClean]_vars

\* the metadata of a value, {} when it has none
MetadataOf(v) == Get(v, "metadata", EmptyMap).m

AnnotationsOf(v) == Get(Map(MetadataOf(v)), "annotations", EmptyMap).m

\* C16: the result of clean_resource has none of the runtime metadata fields, no
\* ownerReferences, no kubectl.kubernetes.io/ or deployment.kubernetes.io/
\* annotation, no annotations key when no annotation is left, and no status
\* unless preserve_status; every other field of the resource, at the top level,
\* in metadata and among the annotations, is there with its original value.
C16_CleanedResource ==
    cpc = "done" =>
        /\ ~cout[1].raised
        /\ LET r == cin.resource
               c == cout[1].out
           IN  /\ DOMAIN MetadataOf(c) \cap (fields_to_remove \cup {"ownerReferences"}) = {}
               /\ \A k \in DOMAIN AnnotationsOf(c) : ~RuntimeAnnotation(k)
               /\ "annotations" \in DOMAIN MetadataOf(c) => DOMAIN AnnotationsOf(c) # {}
               /\ ~cin.preserve_status => "status" \notin DOMAIN c.m
               /\ \A k \in DOMAIN r.m \ {"metadata", "status"} :
                    k \in DOMAIN c.m /\ c.m[k] = r.m[k]
               /\ (cin.preserve_status /\ "status" \in DOMAIN r.m) =>
                    ("status" \in DOMAIN c.m /\ c.m["status"] = r.m["status"])
               /\ \A k \in DOMAIN MetadataOf(r) \ (fields_to_remove \cup {"ownerReferences", "annotations"}) :
                    k \in DOMAIN MetadataOf(c) /\ MetadataOf(c)[k] = MetadataOf(r)[k]
               /\ \A k \in DOMAIN AnnotationsOf(r) :
                    ~RuntimeAnnotation(k) =>
                        (k \in DOMAIN AnnotationsOf(c) /\ AnnotationsOf(c)[k] = AnnotationsOf(r)[k])

\* a resource with a uid, owner references, a kubectl annotation next to another
\* one and a status was cleaned without preserve_status
C16_Witness ==
    /\ cpc = "done"
    /\ ~cin.preserve_status
    /\ {"uid", "ownerReferences", "name"} \subseteq DOMAIN MetadataOf(cin.resource)
    /\ {"kubectl.kubernetes.io/last-applied-configuration", "cluster.x-k8s.io/paused"}
            \subseteq DOMAIN AnnotationsOf(cin.resource)
    /\ {"status", "spec"} \subseteq DOMAIN cin.resource.m
    /\ DOMAIN MetadataOf(cout[1].out) = {"name", "annotations"}
    /\ DOMAIN AnnotationsOf(cout[1].out) = {"cluster.x-k8s.io/paused"}
    /\ "status" \notin DOMAIN cout[1].out.m


(***************************************************************************)
(* export_cluster_state.py: the export of one cluster                      *)
(***************************************************************************)
\* run_kubectl: (success, stdout)
ExportKubectl(found, proc) ==
    IF ~found \/ proc.timed_out THEN [success |-> FALSE, stdout |-> Stdout("empty", Null)]
    ELSE [success |-> proc.returncode = 0, stdout |-> proc.stdout]

\* get_cluster: None unless kubectl succeeded and printed JSON
get_cluster(proc) ==
    LET r == ExportKubectl(TRUE, proc)
    IN  IF ~r.success THEN Null
        ELSE LET data == json_loads(r.stdout)
             IN  IF data.exc # "none" THEN Null ELSE data.out

\* get_resources_for_cluster: the items kubectl printed, [] on any failure
get_resources_for_cluster(proc) ==
    LET r == ExportKubectl(TRUE, proc)
    IN  IF ~r.success THEN <<>>
        ELSE LET data == json_loads(r.stdout)
             IN  IF data.exc # "none" THEN <<>> ELSE Get(data.out, "items", List(<<>>)).q

\* to_yaml(resource): the YAML text of the resource
to_yaml(resource) == [yaml |-> resource]

\* A run of export_cluster: the files under output_dir (path parts -> text) and stats
Run(files, exported, errors) == [files |-> files, exported |-> exported, errors |-> errors]

\* path.write_text(text)
WriteText(files, file, text) ==
    [p \in DOMAIN files \cup {file} |-> IF p = file THEN text ELSE files[p]]

\* write one cleaned resource and count it
ExportOne(run, file, resource, include_status) ==
    Run(WriteText(run.files, file, to_yaml(clean_resource(resource, include_status).out)),
        run.exported + 1, run.errors)

\* export_cluster: the cluster itself goes to cluster.yaml
WriteCluster(run, cluster_resource, include_status) ==
    ExportOne(run, <<"cluster.yaml">>, cluster_resource, include_status)

\* cluster.get("spec", {}).get(field, {})
ClusterRef(cluster_resource, field) == Get(Get(cluster_resource, "spec", EmptyMap), field, EmptyMap)

\* export_referenced_resource; proc answers `kubectl get <type>/<name> -o json`
export_referenced_resource(ref, proc, output_file, include_status, run) ==
    LET kind == Get(ref, "kind", Str(""))
        name == Get(ref, "name", Str(""))
        api_version == Get(ref, "apiVersion", Str(""))
    IN  IF ~Truthy(kind) \/ ~Truthy(name) \/ ~Truthy(api_version) THEN run
        ELSE LET r == ExportKubectl(TRUE, proc)
             IN  IF ~r.success THEN run
                 ELSE LET resource == json_loads(r.stdout)
                      IN  IF resource.exc = "JSONDecodeError"
                          THEN Run(run.files, run.exported, run.errors + 1)
                          ELSE ExportOne(run, output_file, resource.out, include_status)

\* `if infra_ref:` / `if cp_ref:` around export_referenced_resource
ExportRef(cluster_resource, field, proc, output_file, include_status, run) ==
    LET ref == ClusterRef(cluster_resource, field)
    IN  IF Truthy(ref)
        THEN export_referenced_resource(ref, proc, output_file, include_status, run)
        ELSE run

\* resource_types of export_cluster: the fixed list followed by what
\* discover_provider_types returns (name: resource_type.split(".")[0])
resource_types ==
    << [name |-> "clusters", group |-> "cluster.x-k8s.io"],
       [name |-> "machines", group |-> "cluster.x-k8s.io"],
       [name |-> "machinesets", group |-> "cluster.x-k8s.io"],
       [name |-> "machinedeployments", group |-> "cluster.x-k8s.io"],
       [name |-> "machinepools", group |-> "cluster.x-k8s.io"],
       [name |-> "machinehealthchecks", group |-> "cluster.x-k8s.io"],
       [name |-> "clusterresourcesets", group |-> "addons.cluster.x-k8s.io"],
       [name |-> "clusterresourcesetbindings", group |-> "addons.cluster.x-k8s.io"],
       [name |-> "kubeadmconfigs", group |-> "bootstrap.cluster.x-k8s.io"],
       [name |-> "kubeadmconfigtemplates", group |-> "bootstrap.cluster.x-k8s.io"],
       [name |-> "kubeadmcontrolplanes", group |-> "controlplane.cluster.x-k8s.io"],
       [name |-> "kubeadmcontrolplanetemplates", group |-> "controlplane.cluster.x-k8s.io"],
       [name |-> "ipaddressclaims", group |-> "ipam.cluster.x-k8s.io"],
       [name |-> "ipaddresses", group |-> "ipam.cluster.x-k8s.io"],
       [name |-> "awsclusters", group |-> "infrastructure.cluster.x-k8s.io"],
       [name |-> "awsmachines", group |-> "infrastructure.cluster.x-k8s.io"],
       [name |-> "azureclusters", group |-> "infrastructure.cluster.x-k8s.io"],
       [name |-> "azuremachines", group |-> "infrastructure.cluster.x-k8s.io"],
       [name |-> "vsphereclusters", group |-> "infrastructure.cluster.x-k8s.io"],
       [name |-> "vspheremachines", group |-> "infrastructure.cluster.x-k8s.io"] >>

\* resource.get("metadata", {}).get("name", "unknown")
ResourceName(resource) == Get(Get(resource, "metadata", EmptyMap), "name", Str("unknown")).s

\* `for resource in resources:` of export_cluster, into the directory type_name
RECURSIVE ExportResources(_, _, _, _)
ExportResources(type_name, resources, include_status, run) ==
    IF resources = <<>> THEN run
    ELSE ExportResources(type_name, Tail(resources), include_status,
            ExportOne(run, <<type_name, ResourceName(Head(resources)) \o ".yaml">>,
                      Head(resources), include_status))

\* one iteration of `for resource_type in resource_types:`
ExportResourceType(type_name, proc, include_status, run) ==
    ExportResources(type_name, get_resources_for_cluster(proc), include_status, run)

REDACTED == Str("***REDACTED***")

\* a variant of Redact that writes the secret as it is
KeepData(cleaned) == cleaned

\* cleaned["data"] = {k: "***REDACTED***" for k in cleaned["data"]}
Redact(cleaned) ==
    IF "data" \in DOMAIN cleaned.m
    THEN Map(DictSet(cleaned.m, "data", Map([k \in DOMAIN cleaned.m["data"].m |-> REDACTED])))
    ELSE cleaned

\* `for secret in data.get("items", []):` of export_secrets
RECURSIVE ExportSecretItems(_, _)
ExportSecretItems(secrets, run) ==
    IF secrets = <<>> THEN run
    ELSE ExportSecretItems(Tail(secrets),
            Run(WriteText(run.files,
                          <<"secrets", ResourceName(Head(secrets)) \o ".yaml">>,
                          to_yaml(Redact(clean_resource(Head(secrets), FALSE).out))),
                run.exported + 1, run.errors))

\* export_secrets; proc answers `kubectl get secrets -l ... -o json`
export_secrets(proc, run) ==
    LET r == ExportKubectl(TRUE, proc)
    IN  IF ~r.success THEN run
        ELSE LET data == json_loads(r.stdout)
             IN  IF data.exc = "JSONDecodeError"
                 THEN Run(run.files, run.exported, run.errors + 1)
                 ELSE ExportSecretItems(Get(data.out, "items", List(<<>>)).q, run)

\* `if include_secrets: export_secrets(...)`
ExportSecretsIf(include_secrets, proc, run) ==
    IF include_secrets THEN export_secrets(proc, run) ELSE run

\* The paths of the model in the order of sorted(): Path objects compare part
\* by part.
PathOrder ==
    << <<"cluster.yaml">>, <<"clusters", "c1.yaml">>, <<"control-plane.yaml">>,
       <<"infrastructure-cluster.yaml">>, <<"machines", "m1.yaml">>,
       <<"machines", "manifest.yaml">>, <<"machines", "old.yaml">>,
       <<"machines", "unknown.yaml">>, <<"manifest.yaml">>, <<"old.yaml">>,
       <<"secrets", "s1.yaml">>, <<"secrets", "s2.yaml">> >>

\* sorted(output_dir.rglob("*.yaml")): every file of the model is a .yaml file
SortedYamlFiles(files) ==
    LET IsThere(p) == p \in DOMAIN files IN SelectSeq(PathOrder, IsThere)

\* path.name
PathName(p) == p[Len(p)]

\* the `files` list write_manifest builds
ManifestFiles(files) ==
    LET Listed(p) == PathName(p) # "manifest.yaml" IN SelectSeq(SortedYamlFiles(files), Listed)

\* a variant of ManifestFiles that lists the files in reverse order
RECURSIVE Reversed(_)
Reversed(q) == IF q = <<>> THEN <<>> ELSE Reversed(Tail(q)) \o <<Head(q)>>
ManifestFilesReversed(files) == Reversed(ManifestFiles(files))

\* write_manifest; stats is the dict the run goes on to return
write_manifest(cluster_name, namespace, now, run) ==
    Run(WriteText(run.files, <<"manifest.yaml">>,
            to_yaml([exportDate |-> now, clusterName |-> cluster_name, namespace |-> namespace,
                     stats |-> [exported |-> run.exported, errors |-> run.errors],
                     files |-> ManifestFiles(run.files)])),
        run.exported, run.errors)


\* the answer for one resource type: an empty list for the other types
TypeAnswer(answers, type_name) ==
    IF type_name \in DOMAIN answers THEN answers[type_name] ELSE Process(FALSE, 0, JsonText(ListWrapper(<<>>)))

\* `for resource_type in resource_types:`; answers: what kubectl gives per type
RECURSIVE ExportTypesFrom(_, _, _, _)
ExportTypesFrom(i, answers, include_status, run) ==
    IF i > Len(resource_types) THEN run
    ELSE ExportTypesFrom(i + 1, answers, include_status,
            ExportResourceType(resource_types[i].name, TypeAnswer(answers, resource_types[i].name),
                               include_status, run))

(***************************************************************************)
(* SpecExport: one run of export_cluster_state.py, next to the same run    *)
(* over a cluster whose secrets hold other data values.                    *)
(***************************************************************************)
MaxTypeItems == 2

ExportOk(data) == Process(FALSE, 0, JsonText(data))
ExportFailed == Process(FALSE, 1, Stdout("empty", Null))
ExportGarbage == Process(FALSE, 0, Stdout("garbage", Null))
ExportTimedOut == Process(TRUE, 0, Stdout("empty", Null))

\* an object as the API server returns it
ExportedObject(kind, name, spec) ==
    Map([kind |-> Str(kind),
         metadata |-> Map([name |-> Str(name), uid |-> Str("0a1b"), resourceVersion |-> Str("10")]),
         spec |-> spec,
         status |-> Map([phase |-> Str("Provisioned")])])

NamelessObject == Map([kind |-> Str("Machine"), metadata |-> Map([uid |-> Str("0a1b")])])

InfrastructureRef ==
    Map([kind |-> Str("DockerCluster"), name |-> Str("c1"),
         apiVersion |-> Str("infrastructure.cluster.x-k8s.io/v1beta1")])

ControlPlaneRef ==
    Map([kind |-> Str("KubeadmControlPlane"), name |-> Str("c1"),
         apiVersion |-> Str("controlplane.cluster.x-k8s.io/v1beta1")])

\* a reference without its apiVersion
PartialRef == Map([kind |-> Str("KubeadmControlPlane"), name |-> Str("c1")])

\* the answers to get_cluster and to the fetches of the two referenced objects
ClusterAnswers ==
    {[cluster |-> p, infra |-> ExportFailed, cp |-> ExportFailed] :
        p \in {ExportFailed, ExportGarbage, ExportTimedOut,
               ExportOk(ExportedObject("Cluster", "c1", EmptyMap))}}
    \cup
    {[cluster |-> ExportOk(ExportedObject("Cluster", "c1",
                     Map([infrastructureRef |-> InfrastructureRef, controlPlaneRef |-> PartialRef]))),
      infra |-> p, cp |-> ExportFailed] :
        p \in {ExportFailed, ExportGarbage,
               ExportOk(ExportedObject("DockerCluster", "c1", EmptyMap))}}
    \cup
    {[cluster |-> ExportOk(ExportedObject("Cluster", "c1",
                     Map([infrastructureRef |-> InfrastructureRef, controlPlaneRef |-> ControlPlaneRef]))),
      infra |-> ExportOk(ExportedObject("DockerCluster", "c1", EmptyMap)), cp |-> p] :
        p \in {ExportGarbage, ExportOk(ExportedObject("KubeadmControlPlane", "c1", EmptyMap))}}

MachineItems ==
    {ExportedObject("Machine", "m1", EmptyMap), ExportedObject("Machine", "manifest", EmptyMap),
     NamelessObject}

\* what kubectl gives for the resource types that may have objects of the cluster
TypeAnswers ==
    [machines : {ExportFailed, ExportGarbage}
                \cup {ExportOk(ListWrapper(q)) : q \in SeqsUpTo(MachineItems, MaxTypeItems)},
     clusters : {ExportFailed, ExportOk(ListWrapper(<<ExportedObject("Cluster", "c1", EmptyMap)>>))}]

SecretValues == {"cGFzcw==", "b3RoZXI="}

Secret(name, data) ==
    Map([kind |-> Str("Secret"), type |-> Str("Opaque"),
         metadata |-> Map([name |-> Str(name), uid |-> Str("0a1b")])] @@ data)

SecretData(v) == [data |-> Map([password |-> Str(v)])]

\* the answer to the fetch of the secrets, paired with the answer over a cluster that
\* differs in the secrets' data values only
SecretAnswerPairs ==
    {<<p, p>> : p \in {ExportFailed, ExportGarbage, ExportOk(ListWrapper(<<>>)),
                       ExportOk(ListWrapper(<<Secret("s1", <<>>)>>)),
                       ExportOk(ListWrapper(<<Secret("s1", [data |-> EmptyMap])>>))}}
    \cup
    {<<ExportOk(ListWrapper(<<Secret("s1", SecretData(v))>>)),
       ExportOk(ListWrapper(<<Secret("s1", SecretData(w))>>))>> : v, w \in SecretValues}
    \cup
    {<<ExportOk(ListWrapper(<<Secret("s1", SecretData(v)), Secret("s2", <<>>)>>)),
       ExportOk(ListWrapper(<<Secret("s1", SecretData(w)), Secret("s2", <<>>)>>))>> :
        v, w \in SecretValues}

StaleText == to_yaml(Str("an earlier export"))

\* output_dir before the run and the answer to "Overwrite? [y/N]: "
OutputDirs ==
    {[exists |-> FALSE, response |-> "", stale |-> {}],
     [exists |-> TRUE, response |-> "n", stale |-> {<<"old.yaml">>}],
     [exists |-> TRUE, response |-> "", stale |-> {<<"old.yaml">>}],
     [exists |-> TRUE, response |-> "Y", stale |-> {}],
     [exists |-> TRUE, response |-> "y",
      stale |-> {<<"old.yaml">>, <<"machines", "old.yaml">>, <<"cluster.yaml">>, <<"manifest.yaml">>}]}

ExportEnv(found, dir, include_secrets, include_status, answers, types, secrets) ==
    [found |-> found, dir |-> dir, include_secrets |-> include_secrets,
     include_status |-> include_status, cluster |-> answers.cluster, infra |-> answers.infra,
     cp |-> answers.cp, types |-> types, secrets |-> secrets[1], twin_secrets |-> secrets[2],
     cluster_name |-> "c1", namespace |-> "default", now |-> "2024-01-01T00:00:00Z"]

\* response.lower()
Lower(response) == IF response = "Y" THEN "y" ELSE response

\* main goes on to export_cluster
Overwrites(dir) == ~dir.exists \/ Lower(dir.response) = "y"

\* a cluster where every fetch fails
NothingAnswers(found, dir) ==
    ExportEnv(found, dir, FALSE, FALSE,
              [cluster |-> ExportFailed, infra |-> ExportFailed, cp |-> ExportFailed],
              [machines |-> ExportFailed, clusters |-> ExportFailed],
              <<ExportFailed, ExportFailed>>)

InitExport ==
    /\ \/ xenv = NothingAnswers(FALSE, [exists |-> FALSE, response |-> "", stale |-> {}])
       \/ \E d \in OutputDirs : ~Overwrites(d) /\ xenv = NothingAnswers(TRUE, d)
       \/ \E d \in OutputDirs, sec \in BOOLEAN, st \in BOOLEAN, a \in ClusterAnswers,
             t \in TypeAnswers, s \in SecretAnswerPairs :
            /\ Overwrites(d)
            /\ sec \/ s[1] # s[2]
            /\ xenv = ExportEnv(TRUE, d, sec, st, a, t, s)
    /\ xpc = "main"
    /\ xfiles = [p \in xenv.dir.stale |-> StaleText]
    /\ xstats = [exported |-> 0, errors |-> 0]
    /\ xtwin = Run([p \in xenv.dir.stale |-> StaleText], 0, 0)
    /\ xexit = <<>>
    /\ IdleAnalyses /\ IdleTools
    /\ IdleFiles /\ IdleFetch /\ IdleUsage /\ IdleClean /\ IdleKubectl /\ IdlePlan

ExportUnchanged ==
    UNCHANGED <<xenv, cleanVars, analysisVars, toolVars, fileVars, fetchVars, usageVars, kubectlVars, planVars>>

\* both runs take the same step, each from its own files
ExportStep(run, twin, pc) ==
    /\ xfiles' = run.files
    /\ xstats' = [exported |-> run.exported, errors |-> run.errors]
    /\ xtwin' = twin
    /\ xpc' = pc

ThisRun == Run(xfiles, xstats.exported, xstats.errors)

\* main up to the call of export_cluster
ExportMain ==
    /\ xpc = "main"
    /\ IF ~xenv.found THEN xpc' = "exit" /\ xexit' = <<1>>
       ELSE IF ~Overwrites(xenv.dir)
       THEN xpc' = "exit" /\ xexit' = <<1>>
       ELSE xpc' = "cluster" /\ xexit' = xexit
    /\ UNCHANGED <<xfiles, xstats, xtwin>>
    /\ ExportUnchanged

\* export_cluster: get_cluster and cluster.yaml; without the cluster the run
\* returns {"exported": 0, "errors": 1} and main returns 1
ExportClusterItself ==
    /\ xpc = "cluster"
    /\ LET cluster_resource == get_cluster(xenv.cluster)
       IN  IF ~Truthy(cluster_resource)
           THEN /\ xstats' = [exported |-> 0, errors |-> 1]
                /\ xtwin' = Run(xtwin.files, 0, 1)
                /\ xpc' = "exit"
                /\ xexit' = <<1>>
                /\ UNCHANGED xfiles
           ELSE /\ ExportStep(WriteCluster(ThisRun, cluster_resource, xenv.include_status),
                              WriteCluster(xtwin, cluster_resource, xenv.include_status),
                              "infrastructure")
                /\ UNCHANGED xexit
    /\ ExportUnchanged

ExportInfrastructure ==
    /\ xpc = "infrastructure"
    /\ LET step(run) == ExportRef(get_cluster(xenv.cluster), "infrastructureRef", xenv.infra,
                                  <<"infrastructure-cluster.yaml">>, xenv.include_status, run)
       IN  ExportStep(step(ThisRun), step(xtwin), "control-plane")
    /\ UNCHANGED xexit
    /\ ExportUnchanged

ExportControlPlane ==
    /\ xpc = "control-plane"
    /\ LET step(run) == ExportRef(get_cluster(xenv.cluster), "controlPlaneRef", xenv.cp,
                                  <<"control-plane.yaml">>, xenv.include_status, run)
       IN  ExportStep(step(ThisRun), step(xtwin), "types")
    /\ UNCHANGED xexit
    /\ ExportUnchanged

ExportTypes ==
    /\ xpc = "types"
    /\ LET step(run) == ExportTypesFrom(1, xenv.types, xenv.include_status, run)
       IN  ExportStep(step(ThisRun), step(xtwin), "secrets")
    /\ UNCHANGED xexit
    /\ ExportUnchanged

ExportSecrets ==
    /\ xpc = "secrets"
    /\ ExportStep(ExportSecretsIf(xenv.include_secrets, xenv.secrets, ThisRun),
                  ExportSecretsIf(xenv.include_secrets, xenv.twin_secrets, xtwin),
                  "manifest")
    /\ UNCHANGED xexit
    /\ ExportUnchanged

\* write_manifest, the return of export_cluster and main's exit code
ExportManifest ==
    /\ xpc = "manifest"
    /\ LET step(run) == write_manifest(xenv.cluster_name, xenv.namespace, xenv.now, run)
       IN  ExportStep(step(ThisRun), step(xtwin), "exit")
    /\ xexit' = <<IF xstats.errors = 0 THEN 0 ELSE 1>>
    /\ ExportUnchanged

NextExport ==
    \/ ExportMain \/ ExportClusterItself \/ ExportInfrastructure \/ ExportControlPlane
    \/ ExportTypes \/ ExportSecrets \/ ExportManifest

SpecExport == InitExport /\ [][NextExport]_vars

\* the files of a run that hold a Secret
SecretFiles(files) ==
    {p \in DOMAIN files : files[p] # StaleText /\ p # <<"manifest.yaml">>
                          /\ Get(files[p].yaml, "kind", Str("")) = Str("Secret")}

\* the secrets of the cluster as kubectl lists them
ClusterSecrets == get_resources_for_cluster(xenv.secrets)

SecretPath(secret) == <<"secrets", ResourceName(secret) \o ".yaml">>

\* C17: a run writes Secret files only with --include-secrets; once the secrets
\* are exported each of them has its file, where every key of its data is kept
\* and maps to ***REDACTED***; no Secret file holds another data value; and
\* the run over secrets with other data values has written the same files.
C17_SecretsAreRedacted ==
    /\ ~xenv.include_secrets => SecretFiles(xfiles) = {}
    /\ (xenv.include_secrets /\ xpc \in {"manifest", "exit"} /\ xexit # <<1>>) =>
        \A i \in 1..Len(ClusterSecrets) :
            LET secret == ClusterSecrets[i]
            IN  /\ SecretPath(secret) \in DOMAIN xfiles
                /\ "data" \in DOMAIN secret.m =>
                    LET written == xfiles[SecretPath(secret)].yaml
                    IN  /\ "data" \in DOMAIN written.m
                        /\ DOMAIN written.m["data"].m = DOMAIN secret.m["data"].m
    /\ \A p \in SecretFiles(xfiles) :
        "data" \in DOMAIN xfiles[p].yaml.m =>
            \A k \in DOMAIN xfiles[p].yaml.m["data"].m : xfiles[p].yaml.m["data"].m[k] = REDACTED
    /\ xtwin.files = xfiles

\* an export with --include-secrets of a secret with a password, finished next to
\* the export of the same secret with another password
C17_Witness ==
    /\ xpc = "exit"
    /\ xenv.include_secrets
    /\ xenv.secrets # xenv.twin_secrets
    /\ <<"secrets", "s1.yaml">> \in DOMAIN xfiles
    /\ xfiles[<<"secrets", "s1.yaml">>].yaml.m["data"] = Map([password |-> REDACTED])
    /\ xfiles[<<"secrets", "s1.yaml">>] = xtwin.files[<<"secrets", "s1.yaml">>]


\* the files this run wrote: not there before, or there with another text
WrittenByRun ==
    {p \in DOMAIN xfiles : p \notin xenv.dir.stale \/ xfiles[p] # StaleText}

\* export_cluster returned from write_manifest without an error counted
ExportSucceeded == xpc = "exit" /\ xexit = <<0>>

\* C18: after a successful run the `files` list of manifest.yaml holds exactly the
\* paths of the resource files the run wrote, manifest.yaml not among them, in
\* sorted order.
C18_ManifestListsTheExport ==
    ExportSucceeded =>
        LET listed == xfiles[<<"manifest.yaml">>].yaml.files
            wrote == WrittenByRun \ {<<"manifest.yaml">>}
            IsWritten(p) == p \in wrote
        IN  /\ {listed[i] : i \in 1..Len(listed)} = wrote
            /\ listed = SelectSeq(PathOrder, IsWritten)


(***************************************************************************)
(* SpecKubectl: one kubectl outcome given to both run_kubectl_json         *)
(* implementations.                                                        *)
(***************************************************************************)
MaxListItems == 2

\* objects kubectl prints for `get ... -o json`
KubectlObjects ==
    {Map([kind |-> Str(k), metadata |-> Map([name |-> Str(n)])]) :
        k \in {"Cluster", "Machine", "KubeadmControlPlane"}, n \in {"c1", "m1"}}

\* a list wrapper, as kubectl prints it for a get of several objects
KubectlLists ==
    {Map([kind |-> Str(k), apiVersion |-> Str("v1"), items |-> List(q)]) :
        k \in {"List", "MachineList", "ClusterList"},
        q \in SeqsUpTo(KubectlObjects, MaxListItems)}

KubectlStdouts ==
    {Stdout("empty", Null), Stdout("garbage", Null)}
    \cup {JsonText(d) : d \in KubectlObjects \cup KubectlLists}

\* kubectl missing, timed out, ended with an error, or ended well
KubectlOutcomes ==
    [found : BOOLEAN,
     proc : {Process(TRUE, 0, Stdout("empty", Null))}
            \cup {Process(FALSE, 1, s) : s \in {Stdout("empty", Null), Stdout("garbage", Null)}}
            \cup {Process(FALSE, 1, JsonText(d)) : d \in KubectlObjects}
            \cup {Process(FALSE, 0, s) : s \in KubectlStdouts}]

InitKubectl ==
    /\ jout \in KubectlOutcomes
    /\ jpc = "call"
    /\ jlists = <<>>
    /\ IdleAnalyses /\ IdleTools
    /\ IdleFiles /\ IdleFetch /\ IdleUsage /\ IdleExport /\ IdlePlan

\* the same outcome goes to audit_security's and to analyze_conditions' function
RunKubectlJson ==
    /\ jpc = "call"
    /\ jlists' = <<audit_security_run_kubectl_json(jout.found, jout.proc),
                   analyze_conditions_run_kubectl_json(jout.found, jout.proc)>>
    /\ jpc' = "done"
    /\ UNCHANGED <<jout, analysisVars, toolVars, fileVars, fetchVars, usageVars, exportVars, planVars>>

NextKubectl == RunKubectlJson

SpecKubectl == InitKubectl /\ [][NextKubectl]_vars

\* kubectl ran to the end with exit code 0 and printed JSON
PrintedJson ==
    /\ jout.found /\ ~jout.proc.timed_out /\ jout.proc.returncode = 0
    /\ jout.proc.stdout.text = "json"

\* the list the specification names for an outcome
ListOfOutcome ==
    IF ~PrintedJson THEN List(<<>>)
    ELSE IF "items" \in DOMAIN jout.proc.stdout.data.m
         THEN jout.proc.stdout.data.m["items"]
         ELSE List(<<jout.proc.stdout.data>>)

\* C19: run_kubectl_json returns the items of a list wrapper, a one-element list
\* for a single object, and the empty list when kubectl is missing, fails, times
\* out or prints no JSON; audit_security's and analyze_conditions' functions
\* return the same list.
C19_SameListForTheSameOutcome ==
    jpc = "done" =>
        /\ jlists[1] = Returns(ListOfOutcome)
        /\ jlists[2] = Returns(ListOfOutcome)

\* both functions were given a single Cluster object and returned it in a list
C19_Witness ==
    /\ jpc = "done"
    /\ PrintedJson
    /\ jout.proc.stdout.data \in KubectlObjects
    /\ jlists[1] = Returns(List(<<jout.proc.stdout.data>>))
    /\ jlists[2] = jlists[1]


(***************************************************************************)
(* bd_generate_markdown_plan.py                                            *)
(***************************************************************************)
\* a JSON number with a fraction: json.load gives a float
Float(n) == [t |-> "float", n |-> n]

\* s.strip() for the strings of the plans
Strip(s) ==
    CASE s \in {"", "  ", "\n"} -> ""
      [] s = " t1 " -> "t1"
      [] OTHER -> s

\* _require_str: the stripped string, or ValueError
require_str(value) ==
    IF value.t # "str" \/ Strip(value.s) = "" THEN Throws("ValueError")
    ELSE Returns(Strip(value.s))

\* isinstance(value, int): bool is a subclass of int
IsInstanceInt(value) == value.t \in {"num", "bool"}

\* _require_int
require_int(value) ==
    IF ~IsInstanceInt(value) THEN Throws("ValueError") ELSE Returns(value)

\* the value of an int or bool in a comparison with an int
IntValue(value) == IF value.t = "bool" THEN (IF value.b THEN 1 ELSE 0) ELSE value.n

\* the items that are left after `item.strip() for item in value if item.strip()`
RECURSIVE StrippedItems(_)
StrippedItems(q) ==
    IF q = <<>> THEN <<>>
    ELSE (IF Strip(Head(q).s) = "" THEN <<>> ELSE <<Strip(Head(q).s)>>) \o StrippedItems(Tail(q))

\* _require_str_list
require_str_list(value) ==
    IF value = Null THEN Returns(<<>>)
    ELSE IF value.t # "list" \/ \E i \in 1..Len(value.q) : value.q[i].t # "str"
    THEN Throws("ValueError")
    ELSE Returns(StrippedItems(value.q))

IssueSpec(title, priority, issue_type, description, design, acceptance_criteria, labels,
          dependencies) ==
    [title |-> title, priority |-> priority, issue_type |-> issue_type,
     description |-> description, design |-> design,
     acceptance_criteria |-> acceptance_criteria, labels |-> labels,
     dependencies |-> dependencies]

\* _parse_issue: the first failing requirement raises
parse_issue(obj) ==
    IF ~IsDict(obj) THEN Throws("ValueError")
    ELSE
    LET title == require_str(Get(obj, "title", Null))
        priority == require_int(Get(obj, "priority", Null))
        issue_type == require_str(Get(obj, "type", Null))
        description == require_str(Get(obj, "description", Null))
        design == require_str(Get(obj, "design", Null))
        acceptance_criteria == require_str(Get(obj, "acceptance_criteria", Null))
        labels == require_str_list(Get(obj, "labels", Null))
        dependencies == require_str_list(Get(obj, "dependencies", Null))
    IN  IF title.exc # "none" THEN title
        ELSE IF priority.exc # "none" THEN priority
        ELSE IF IntValue(priority.out) < 0 \/ IntValue(priority.out) > 4 THEN Throws("ValueError")
        ELSE IF issue_type.exc # "none" THEN issue_type
        ELSE IF description.exc # "none" THEN description
        ELSE IF design.exc # "none" THEN design
        ELSE IF acceptance_criteria.exc # "none" THEN acceptance_criteria
        ELSE IF labels.exc # "none" THEN labels
        ELSE IF dependencies.exc # "none" THEN dependencies
        ELSE Returns(IssueSpec(title.out, priority.out, issue_type.out, description.out,
                               design.out, acceptance_criteria.out, labels.out,
                               dependencies.out))

\* issues = [_parse_issue(item) for item in raw_issues]
RECURSIVE ParseIssues(_)
ParseIssues(raw_issues) ==
    IF raw_issues = <<>> THEN Returns(<<>>)
    ELSE LET first == parse_issue(Head(raw_issues))
         IN  IF first.exc # "none" THEN first
             ELSE LET rest == ParseIssues(Tail(raw_issues))
                  IN  IF rest.exc # "none" THEN rest
                      ELSE Returns(<<first.out>> \o rest.out)

\* The Markdown text is kept as its parts: an H2 header line and H3 sections.
Header(title) == [h |-> 2, text |-> title]

\* the content of a section: a string, str(priority), or ", ".join(items)
Text(s) == [t |-> "text", s |-> s]
PriorityText(v) == [t |-> "str()", of |-> v]
Joined(items) == [t |-> "join", q |-> items]

\* `not content.strip()`
BlankContent(content) ==
    CASE content.t = "text" -> Strip(content.s) = ""
      [] content.t = "join" -> content.q = <<>>
      [] OTHER -> FALSE

\* _render_section: nothing for blank content
render_section(name, content) ==
    IF BlankContent(content) THEN <<>>
    ELSE <<[h |-> 3, text |-> name, content |-> content]>>

\* the parts render_markdown appends for one issue
RenderIssue(issue) ==
    <<Header(issue.title)>>
    \o render_section("Priority", PriorityText(issue.priority))
    \o render_section("Type", Text(issue.issue_type))
    \o render_section("Description", Text(issue.description))
    \o render_section("Design", Text(issue.design))
    \o render_section("Acceptance Criteria", Text(issue.acceptance_criteria))
    \o (IF issue.labels # <<>> THEN render_section("Labels", Joined(issue.labels)) ELSE <<>>)
    \o (IF issue.dependencies # <<>>
        THEN render_section("Dependencies", Joined(issue.dependencies)) ELSE <<>>)

RECURSIVE render_markdown(_)
render_markdown(plan_issues) ==
    IF plan_issues = <<>> THEN <<>>
    ELSE RenderIssue(Head(plan_issues)) \o render_markdown(Tail(plan_issues))

\* _validate_out_path; out: what --out names
validate_out_path(out) ==
    IF out.is_dir THEN Throws("ValueError")
    ELSE IF ~out.markdown_suffix THEN Throws("ValueError")
    ELSE Returns(out)

(***************************************************************************)
(* SpecPlan: one run of bd_generate_markdown_plan.py.                      *)
(***************************************************************************)
MaxPlanIssues == 2

ValidIssue(title) ==
    Map([title |-> Str(title), priority |-> Num(2), type |-> Str("task"),
         description |-> Str("what"), design |-> Str("how"),
         acceptance_criteria |-> Str("done when")])

\* values a plan may give to a field of an otherwise valid issue
FieldValues ==
    [title |-> {Str(""), Str("  "), Num(1)},
     priority |-> {Num(0), Num(4), Num(5), Num(-1), Bool(TRUE), Str("2"), Float(2), Null},
     type |-> {Str("  ")},
     description |-> {Num(1)},
     design |-> {Str("")},
     acceptance_criteria |-> {Null},
     labels |-> {Null, List(<<Str("a"), Str("  ")>>), List(<<Num(1)>>), Str("a")},
     dependencies |-> {List(<<Str("bd-1")>>), Map([id |-> Str("bd-1")])}]

RequiredFields ==
    {"title", "priority", "type", "description", "design", "acceptance_criteria"}

PlanItems ==
    {ValidIssue(t) : t \in {"t1", " t1 ", "t2"}}
    \cup {Map(DictSet(ValidIssue("t1").m, f, v)) : <<f, v>> \in
            UNION {{<<g, w>> : w \in FieldValues[g]} : g \in DOMAIN FieldValues}}
    \cup {Map(DictDrop(ValidIssue("t1").m, {f})) : f \in {"title", "priority", "design"}}
    \cup {Str("t1"), Null}

\* the file --in names: missing, not JSON, or the text of a JSON value
PlanInputs ==
    {[state |-> "missing", raw |-> Null], [state |-> "garbage", raw |-> Null]}
    \cup {[state |-> "json", raw |-> r] :
            r \in {List(<<ValidIssue("t1")>>), Map([plan |-> List(<<>>)]),
                   Map([issues |-> ValidIssue("t1")])}
                  \cup {Map([issues |-> List(q)]) : q \in SeqsUpTo(PlanItems, MaxPlanIssues)}}

\* what --out names (given: the option is there; without it mkstemp makes a new file)
OutPath(given, is_dir, markdown_suffix, exists, openable) ==
    [given |-> given, is_dir |-> is_dir, markdown_suffix |-> markdown_suffix,
     exists |-> exists, openable |-> openable]

OutPaths ==
    {OutPath(FALSE, FALSE, TRUE, FALSE, TRUE),     \* no --out
     OutPath(TRUE, FALSE, TRUE, FALSE, TRUE),      \* --out new.md
     OutPath(TRUE, FALSE, TRUE, TRUE, TRUE),       \* --out old.md, a file that is there
     OutPath(TRUE, FALSE, FALSE, TRUE, TRUE),      \* --out old.txt
     OutPath(TRUE, TRUE, TRUE, FALSE, FALSE),      \* --out plans.md, a directory
     OutPath(TRUE, FALSE, TRUE, FALSE, FALSE)}     \* --out nowhere/new.md

OldText == <<Header("an earlier plan")>>

\* the file at the output path before the run
FileBefore(out) == IF out.exists THEN <<OldText>> ELSE <<>>

InitPlan ==
    /\ penv \in [input : PlanInputs, out : OutPaths]
    /\ ppc = "load"
    /\ pfile = FileBefore(penv.out)
    /\ pexit = <<>>
    /\ IdleAnalyses /\ IdleTools
    /\ IdleFiles /\ IdleFetch /\ IdleUsage /\ IdleExport /\ IdleKubectl

PlanUnchanged ==
    UNCHANGED <<penv, analysisVars, toolVars, fileVars, fetchVars, usageVars, exportVars, kubectlVars>>

\* the process ends: an uncaught exception or SystemExit(message) gives status 1
PlanExit(status, error) ==
    /\ ppc' = "exit"
    /\ pexit' = <<[status |-> status, error |-> error]>>

\* main: open, json.load and the tests of the plan's shape
PlanLoad ==
    /\ ppc = "load"
    /\ IF penv.input.state = "missing" THEN PlanExit(1, "FileNotFoundError")
       ELSE IF penv.input.state = "garbage" THEN PlanExit(1, "JSONDecodeError")
       ELSE IF ~IsDict(penv.input.raw) \/ ~In("issues", penv.input.raw)
       THEN PlanExit(1, "SystemExit")
       ELSE IF Get(penv.input.raw, "issues", Null).t # "list" THEN PlanExit(1, "SystemExit")
       ELSE ppc' = "parse" /\ pexit' = pexit
    /\ UNCHANGED pfile
    /\ PlanUnchanged

\* raw.get("issues")
RawIssues == Get(penv.input.raw, "issues", Null).q

\* main: issues = [_parse_issue(item) for item in raw_issues]; render_markdown
PlanParse ==
    /\ ppc = "parse"
    /\ LET parsed == ParseIssues(RawIssues)
       IN  IF parsed.exc # "none" THEN PlanExit(1, parsed.exc)
           ELSE ppc' = "write" /\ pexit' = pexit
    /\ UNCHANGED pfile
    /\ PlanUnchanged

\* main: the output path, open(out_path, "w"), f.write(markdown)
PlanWrite ==
    /\ ppc = "write"
    /\ LET markdown == render_markdown(ParseIssues(RawIssues).out)
           out_path == IF ~penv.out.given THEN Returns(penv.out)
                       ELSE validate_out_path(penv.out)
       IN  IF out_path.exc # "none" THEN PlanExit(1, out_path.exc) /\ UNCHANGED pfile
           ELSE IF ~penv.out.openable THEN PlanExit(1, "OSError") /\ UNCHANGED pfile
           ELSE PlanExit(0, "none") /\ pfile' = <<markdown>>
    /\ PlanUnchanged

NextPlan == PlanLoad \/ PlanParse \/ PlanWrite

SpecPlan == InitPlan /\ [][NextPlan]_vars

\* a non-blank string
NonBlankString(v) == v.t = "str" /\ Strip(v.s) # ""

\* a list of strings; a field that is absent or null has no list to test
ListOfStrings(v) == v = Null \/ (v.t = "list" /\ \A i \in 1..Len(v.q) : v.q[i].t = "str")

\* an issue that fails the validation the spec describes
InvalidIssue(obj) ==
    \/ ~IsDict(obj)
    \/ \E f \in RequiredFields \ {"priority"} : ~NonBlankString(Get(obj, f, Null))
    \/ Get(obj, "priority", Null).t # "num"
    \/ Get(obj, "priority", Null).n \notin 0..4
    \/ ~ListOfStrings(Get(obj, "labels", Null))
    \/ ~ListOfStrings(Get(obj, "dependencies", Null))

\* the input is a plan: an object whose `issues` is a list
IsPlan ==
    /\ penv.input.state = "json" /\ IsDict(penv.input.raw)
    /\ In("issues", penv.input.raw) /\ Get(penv.input.raw, "issues", Null).t = "list"

SomeIssueInvalid == \E i \in 1..Len(RawIssues) : InvalidIssue(RawIssues[i])

\* the titles of the `## <title>` lines of a Markdown text, in order
Titles(markdown) ==
    LET IsHeader(part) == part.h = 2
        headers == SelectSeq(markdown, IsHeader)
    IN  [i \in 1..Len(headers) |-> headers[i].text]

\* C20: the output file is written only after every issue of the plan passed
\* validation: with an issue that is not an object, lacks a non-blank string
\* title, type, description, design or acceptance_criteria, has a priority that
\* is not an integer in 0..4, or labels or dependencies that are not a list of
\* strings, the run ends with an error and the file is as it was before;
\* otherwise a written file has one `## <title>` line per issue, in input order.
C20_FileOnlyAfterValidation ==
    IsPlan =>
        /\ SomeIssueInvalid =>
            /\ pfile = FileBefore(penv.out)
            /\ ppc = "exit" => pexit[1].status # 0
        /\ (~SomeIssueInvalid /\ ppc = "exit" /\ pexit[1].status = 0) =>
            Titles(pfile[1]) = [i \in 1..Len(RawIssues) |-> Strip(RawIssues[i].m["title"].s)]


(***************************************************************************)
(* The field resolver on a field that is set to null.                      *)
(***************************************************************************)
\* a document like d in which the first key of path p is not set
WithoutField(d, p) == Map(DictDrop(d.m, {p[1]}))

\* C21 (as claimed): resolving a path that is set to null gives a result that
\* differs from resolving the same path on a document where it is not set.
C21_NullIsNotAbsent ==
    (op = "get_nested" /\ Present(doc, path) /\ ValueAt(doc, path) = Null) =>
        result.out[1] # get_nested(WithoutField(doc, path), path)


(***************************************************************************)
(* check_replicas over every replica count.                                *)
(***************************************************************************)
\* the control plane replica count check_replicas works with: 1 when not set
ReplicaCount == IF ClusterReplicas = Null THEN 1 ELSE ClusterReplicas.n

\* 1 when b holds, 0 otherwise
Indicator(b) == IF b THEN 1 ELSE 0

\* C22: for every integer replica count r (1 when absent) check_replicas adds
\* the "recommend 3 for HA" Availability finding iff r < 3, medium iff r = 1
\* and low otherwise; the low even-replica finding iff r is even; and nothing
\* else: [r < 3] + [r even] findings, none for an odd r >= 3.
C22_FindingsByReplicaCount ==
    AfterCheckReplicas =>
        LET r == ReplicaCount
        IN  /\ CountIf(added, IsHaFinding) = Indicator(r < 3)
            /\ CountIf(added, IsEvenFinding) = Indicator(r % 2 = 0)
            /\ Len(added) = Indicator(r < 3) + Indicator(r % 2 = 0)
            /\ \A i \in 1..Len(added) :
                /\ added[i].category = "Availability"
                /\ IsHaFinding(added[i]) =>
                    added[i].severity = (IF r = 1 THEN "medium" ELSE "low")
                /\ IsEvenFinding(added[i]) => added[i].severity = "low"
            /\ (r >= 3 /\ r % 2 = 1) => added = <<>>

\* check_replicas has run on a Cluster with no control plane replica and added
\* two low findings
C22_Witness ==
    /\ AfterCheckReplicas
    /\ ClusterReplicas = Num(0)
    /\ Len(added) = 2
    /\ IsHaFinding(added[1]) /\ added[1].severity = "low"
    /\ IsEvenFinding(added[2]) /\ added[2].severity = "low"


(***************************************************************************)
(* lint_cluster_templates.py: lint_content over the lines of a content.    *)
(***************************************************************************)
\* BEST_PRACTICES["no_hardcoded_credentials"]["patterns"], by position:
\* 1 password, 2 secret, 3 token
CredentialPatterns == <<"password", "secret", "token">>

\* The lines a content is made of.  `matches`: the patterns re.search finds in
\* the line (re.IGNORECASE); `key`, `value`: what the YAML parser makes of the
\* line ("" for a blank line); `broken`: the line is a YAML syntax error.
LineFacts ==
    ("" :> [matches |-> {}, key |-> "", value |-> Null, broken |-> FALSE])
 @@ ("name: workload" :>
        [matches |-> {}, key |-> "name", value |-> Str("workload"), broken |-> FALSE])
 @@ ("password: hunter2" :>
        [matches |-> {1}, key |-> "password", value |-> Str("hunter2"), broken |-> FALSE])
 @@ ("password: ${PASSWORD}" :>
        [matches |-> {}, key |-> "password", value |-> Str("${PASSWORD}"), broken |-> FALSE])
 @@ ("clientSecret: abc" :>
        [matches |-> {2}, key |-> "clientSecret", value |-> Str("abc"), broken |-> FALSE])
 @@ ("token: abcdefghijklmnopqrstuvwx" :>
        [matches |-> {3}, key |-> "token", value |-> Str("abcdefghijklmnopqrstuvwx"),
         broken |-> FALSE])
 @@ ("stringData: {password: hunter2, secret: abc}" :>
        [matches |-> {1, 2}, key |-> "stringData",
         value |-> Map(("password" :> Str("hunter2")) @@ ("secret" :> Str("abc"))),
         broken |-> FALSE])
 @@ ("password: \"hunter2" :>
        [matches |-> {1}, key |-> "password", value |-> Null, broken |-> TRUE])

\* re.search(pattern, line, re.IGNORECASE)
re_search(pattern, line) == pattern \in LineFacts[line].matches

\* a finding of lint_content: LintIssue(severity, message, file, line)
LintIssueAt(severity, message, line) ==
    [severity |-> severity, message |-> message, line |-> line]

\* `for i, line in enumerate(content.split("\n"), 1)` for one pattern
RECURSIVE PatternIssues(_, _, _)
PatternIssues(pattern, lines, i) ==
    IF i > Len(lines) THEN <<>>
    ELSE (IF re_search(pattern, lines[i])
          THEN <<LintIssueAt("warning", <<"Possible hardcoded credential detected">>, i)>>
          ELSE <<>>)
         \o PatternIssues(pattern, lines, i + 1)

\* `for pattern in check_info["patterns"]` around the loop over the lines
CredentialIssues(lines) ==
    Flatten([p \in 1..Len(CredentialPatterns) |-> PatternIssues(p, lines, 1)])

\* the mapping the parser builds from the lines of one document
RECURSIVE LoadMapping(_, _)
LoadMapping(lines, m) ==
    IF lines = <<>> THEN m
    ELSE LET f == LineFacts[Head(lines)]
         IN  LoadMapping(Tail(lines), IF f.key = "" THEN m ELSE DictSet(m, f.key, f.value))

\* list(yaml.safe_load_all(content)): a YAMLError, no document for a content
\* of blank lines, one mapping otherwise
SafeLoadAll(lines) ==
    IF \E i \in 1..Len(lines) : LineFacts[lines[i]].broken THEN Throws("YAMLError")
    ELSE IF \A i \in 1..Len(lines) : LineFacts[lines[i]].key = "" THEN Returns(<<>>)
    ELSE Returns(<<Map(LoadMapping(lines, <<>>))>>)

\* the findings of the documents, each at the first line of its document
DocumentIssues(docs) ==
    LET r == LintDocuments(docs, 0, <<>>)
    IN  [exc |-> r.exc,
         out |-> [i \in 1..Len(r.findings) |->
                    LintIssueAt(r.findings[i].severity, r.findings[i].message, 1)]]

\* lint_content(content, file_path).issues, content.split("\n") being lines
LintContentLines(lines) ==
    LET parsed == SafeLoadAll(lines)
    IN  IF parsed.exc # "none"
        THEN Returns(<<LintIssueAt("error", <<"YAML syntax error">>, 0)>>)
        ELSE LET d == DocumentIssues(parsed.out)
             IN  IF d.exc # "none" THEN Throws(d.exc)
                 ELSE Returns(CredentialIssues(lines) \o d.out)

MaxLines == 3

ContentLines == DOMAIN LineFacts

InitLint ==
    /\ \E lines \in SeqsUpTo(ContentLines, MaxLines) \ {<<>>} : lcontent = lines
    /\ lpc = "start"
    /\ lissues = <<>>
    /\ IdleAnalyses /\ IdleRuns /\ IdleKubeadm /\ IdleCoderabbit /\ IdleVersions

\* lint_content(content, file_path)
LintContent ==
    /\ lpc = "start"
    /\ lpc' = "done"
    /\ lissues' = <<LintContentLines(lcontent)>>
    /\ UNCHANGED <<lcontent, analysisVars, runVars, kubeadmVars, coderabbitVars, versionVars>>

NextLint == LintContent

SpecLint == InitLint /\ [][NextLint]_vars

\* the credential findings of the call
CredentialFindings ==
    SelectSeq(lissues[1].out,
              LAMBDA f : f.message = <<"Possible hardcoded credential detected">>)

\* line i of the content matches a credential pattern
MatchingLine(i) == LineFacts[lcontent[i]].matches # {}

\* C23 (as claimed): lint_content gives one warning with the line's 1-based
\* number for every line that matches a credential pattern, and no credential
\* finding for any other line.
C23_OneWarningPerMatchingLine ==
    lpc = "done" =>
        /\ lissues[1].exc = "none"
        /\ \A i \in 1..Len(lcontent) :
            CountIf(CredentialFindings, LAMBDA f : f.line = i /\ f.severity = "warning")
                = Indicator(MatchingLine(i))
        /\ \A k \in 1..Len(CredentialFindings) :
            CredentialFindings[k].line \in 1..Len(lcontent)


(***************************************************************************)
(* audit_security.py: check_kubeadm_security on one KubeadmControlPlane.   *)
(***************************************************************************)
\* f"KubeadmControlPlane/{namespace}/{name}"
KcpResource(k) ==
    LET metadata == Get(k, "metadata", EmptyMap)
    IN  IF ~HasGet(metadata) THEN Raise
        ELSE Ok(<<"KubeadmControlPlane", Get(metadata, "namespace", Str("default")),
                  Get(metadata, "name", Str("unknown"))>>)

\* d.get(key, {}) for the d a call before it returned
GetIn(d, key) ==
    IF d.raised THEN Raise
    ELSE IF ~HasGet(d.out[1]) THEN Raise
    ELSE Ok(<<Get(d.out[1], key, EmptyMap)>>)

\* a variant of the test that also takes the YAML boolean true
AnonymousAuthTruthy(value) == value \in {Str("true"), Bool(TRUE)}

\* extra_args.get("anonymous-auth") == "true"
AnonymousAuthEnabled(value) == value = Str("true")

\* an exception leaves the call after it added the findings fs
RaisedAfter(fs) == [raised |-> TRUE, out |-> fs]

\* The findings check_kubeadm_security adds to the report, in order.
check_kubeadm_security(k) ==
    LET res == KcpResource(k)
        cluster_config == GetIn(GetIn(GetIn(Ok(<<k>>), "spec"), "kubeadmConfigSpec"),
                                "clusterConfiguration")
        extra == GetIn(GetIn(cluster_config, "apiServer"), "extraArgs")
    IN  IF res.raised \/ extra.raised THEN Raise
        ELSE
        LET resource == res.out
            extra_args == extra.out[1]
        IN  IF ~CanContain(extra_args) THEN Raise
            ELSE
            LET afterEncryption ==
                    IF ~In("encryption-provider-config", extra_args)
                    THEN AuditReport_add(<<>>, "medium", "Encryption", resource,
                            [text |-> "etcd encryption at rest not configured"],
                            "Configure encryption-provider-config for secret encryption")
                    ELSE <<>>
                afterAudit ==
                    IF ~In("audit-policy-file", extra_args)
                    THEN AuditReport_add(afterEncryption, "medium", "Audit", resource,
                            [text |-> "Kubernetes audit policy not configured"],
                            "Configure audit-policy-file for API audit logging")
                    ELSE afterEncryption
            IN  IF ~HasGet(extra_args) THEN RaisedAfter(afterAudit)
                ELSE
                LET auth_mode == Get(extra_args, "authorization-mode", Str(""))
                IN  IF ~CanContain(auth_mode) THEN RaisedAfter(afterAudit)
                    ELSE
                    LET afterRbac ==
                            IF ~In("RBAC", auth_mode)
                            THEN AuditReport_add(afterAudit, "high", "Authorization", resource,
                                    [text |-> "RBAC not explicitly enabled in authorization-mode"],
                                    "Ensure authorization-mode includes RBAC")
                            ELSE afterAudit
                        afterAnonymous ==
                            IF AnonymousAuthEnabled(Get(extra_args, "anonymous-auth", Null))
                            THEN AuditReport_add(afterRbac, "high", "Authentication", resource,
                                    [text |-> "Anonymous authentication is enabled"],
                                    "Set anonymous-auth=false")
                            ELSE afterRbac
                        kubelet_args == GetIn(cluster_config, "kubeletConfiguration")
                    IN  IF ~HasGet(kubelet_args.out[1]) THEN RaisedAfter(afterAnonymous)
                        ELSE Ok(IF Get(kubelet_args.out[1], "serverTLSBootstrap", Null) # Bool(TRUE)
                                THEN AuditReport_add(afterAnonymous, "low", "TLS", resource,
                                        [text |-> "Kubelet server TLS bootstrap not enabled"],
                                        "Enable serverTLSBootstrap for automatic certificate management")
                                ELSE afterAnonymous)

\* apiServer.extraArgs of a KubeadmControlPlane: a mapping of strings
ExtraArgsVals ==
    {Map(e @@ a @@ z @@ n) :
        e \in Opt("encryption-provider-config", {Str("/etc/kubernetes/enc.yaml")}),
        a \in Opt("audit-policy-file", {Str("/etc/kubernetes/audit.yaml")}),
        z \in Opt("authorization-mode", {Str("Node,RBAC"), Str("AlwaysAllow")}),
        n \in Opt("anonymous-auth", {Str("true"), Str("false"), Bool(TRUE)})}

KubeletVals == {EmptyMap, Map("serverTLSBootstrap" :> Bool(TRUE))}

ClusterConfigurationVals ==
    {Map(s @@ b) :
        s \in Opt("apiServer", {Map(x) : x \in Opt("extraArgs", ExtraArgsVals)}),
        b \in Opt("kubeletConfiguration", KubeletVals)}

KubeadmControlPlanes ==
    {Map(("metadata" :> Map("name" :> Str("c1-cp"))) @@ s) :
        s \in Opt("spec",
                {Map(c) : c \in Opt("kubeadmConfigSpec",
                    {Map(g) : g \in Opt("clusterConfiguration", ClusterConfigurationVals)})})}

InitKubeadm ==
    /\ kcpin \in KubeadmControlPlanes
    /\ kcppc = "start"
    /\ kcpadded = <<>>
    /\ IdleAnalyses /\ IdleRuns /\ IdleLint /\ IdleCoderabbit /\ IdleVersions

\* check_kubeadm_security(kcp, report), as run_audit calls it for a
\* KubeadmControlPlane the cluster owns
CheckKubeadmSecurity ==
    /\ kcppc = "start"
    /\ kcppc' = "done"
    /\ kcpadded' = <<check_kubeadm_security(kcpin)>>
    /\ UNCHANGED <<kcpin, analysisVars, runVars, lintVars, coderabbitVars, versionVars>>

NextKubeadm == CheckKubeadmSecurity

SpecKubeadm == InitKubeadm /\ [][NextKubeadm]_vars

\* the value of anonymous-auth in the apiServer extraArgs, Null when any
\* mapping on the way or the key is not there
AnonymousAuthOf(k) ==
    LET keys == <<"spec", "kubeadmConfigSpec", "clusterConfiguration", "apiServer",
                  "extraArgs", "anonymous-auth">>
    IN  IF Present(k, keys) THEN ValueAt(k, keys) ELSE Null

IsAnonymousFinding(f) ==
    /\ f.message = [text |-> "Anonymous authentication is enabled"]
    /\ f.severity = "high"
    /\ f.category = "Authentication"

\* C24: check_kubeadm_security adds the high Authentication finding
\* "Anonymous authentication is enabled" exactly when the apiServer extraArgs
\* value of anonymous-auth is the string "true"; with the key absent or the
\* value "false" it adds none.
C24_AnonymousAuthFinding ==
    kcppc = "done" =>
        /\ ~kcpadded[1].raised
        /\ CountIf(kcpadded[1].out, IsAnonymousFinding)
            = Indicator(AnonymousAuthOf(kcpin) = Str("true"))
        /\ \A f \in {kcpadded[1].out[i] : i \in 1..Len(kcpadded[1].out)} :
            f.message = [text |-> "Anonymous authentication is enabled"] => IsAnonymousFinding(f)

\* the call has added the finding for anonymous-auth "true", after the others
C24_Witness ==
    /\ kcppc = "done"
    /\ AnonymousAuthOf(kcpin) = Str("true")
    /\ Len(kcpadded[1].out) = 5
    /\ IsAnonymousFinding(kcpadded[1].out[4])


\* spec.get(key, {}) of a resource
SpecRef(resource, key) == Get(Get(resource, "spec", EmptyMap), key, EmptyMap)

\* C25: after clean_resource returned, the resource handed to it equals what
\* it was before the call (metadata, annotations, ownerReferences and status
\* included), so spec.infrastructureRef and spec.controlPlaneRef can still be
\* read from it.
C25_ArgumentNotMutated ==
    cpc = "done" =>
        /\ carg = cin.resource
        /\ SpecRef(carg, "infrastructureRef") = SpecRef(cin.resource, "infrastructureRef")
        /\ SpecRef(carg, "controlPlaneRef") = SpecRef(cin.resource, "controlPlaneRef")

\* clean_resource has removed ownerReferences, a runtime annotation and the
\* status from its copy of a resource that still has them and its references
C25_Witness ==
    /\ cpc = "done"
    /\ ~cout[1].raised
    /\ "ownerReferences" \in DOMAIN MetadataOf(carg)
    /\ "ownerReferences" \notin DOMAIN MetadataOf(cout[1].out)
    /\ "deployment.kubernetes.io/revision" \in DOMAIN AnnotationsOf(carg)
    /\ "status" \in DOMAIN carg.m /\ "status" \notin DOMAIN cout[1].out.m
    /\ Truthy(SpecRef(carg, "infrastructureRef"))
    /\ Truthy(SpecRef(carg, "controlPlaneRef"))


\* the conditions check_cluster_health hands to analyze_conditions for an item
ItemConditions(item) ==
    LET status == Get(item, "status", EmptyMap)
        direct == Get(status, "conditions", List(<<>>))
    IN  IF Truthy(direct) THEN direct.q
        ELSE Get(Get(status, "v1beta2", EmptyMap), "conditions", List(<<>>)).q

\* the number of conditions analysed in the run
AnalysedConditions ==
    LET resources == get_cluster_resources(henv)
        Count[r \in 0..Len(resources)] ==
            IF r = 0 THEN 0
            ELSE Count[r - 1]
                 + Len(Flatten([i \in 1..Len(resources[r].items) |->
                                  ItemConditions(resources[r].items[i])]))
    IN  Count[Len(resources)]

\* check_cluster_health has returned its issues
HealthChecked == hpc \in {"report", "returned", "raised"} /\ henv.usage_ok /\ henv.kubectl_found

\* C26: every issue of check_cluster_health has severity error or warning, so
\* total_issues = errors + warnings; a condition gives at most two issues.
C26_IssuesAreErrorsOrWarnings ==
    HealthChecked =>
        /\ \A i \in 1..Len(issues) : issues[i].severity \in {"error", "warning"}
        /\ Len(issues) = SummaryErrors(issues) + SummaryWarnings(issues)
        /\ Len(issues) <= 2 * AnalysedConditions

\* a Ready condition that is False with reason Failed has given two issues:
\* an error for the expected-True condition and a warning for the reason
C26_Witness ==
    /\ HealthChecked
    /\ AnalysedConditions = 1
    /\ Len(issues) = 2
    /\ issues[1].severity = "error" /\ issues[1].condition_type = Str("Ready")
    /\ issues[2].severity = "warning" /\ issues[2].reason = Str("Failed")
    /\ SummaryErrors(issues) = 1 /\ SummaryWarnings(issues) = 1


\* a non-empty string
NonEmptyStr(v) == v.t = "str" /\ v.s # ""

\* C27 (as claimed): when validate_document returns no error for a Cluster,
\* the document has a non-empty apiVersion, a non-empty metadata.name and a
\* spec.infrastructureRef with a non-empty kind and a non-empty name.
C27_NoErrorsMeansMinimalCluster ==
    (/\ Returned("validate_document")
     /\ DocKind = Str("Cluster")
     /\ \A i \in 1..Len(result.out) : result.out[i].severity # "error")
    =>  /\ NonEmptyStr(Get(doc, "apiVersion", Null))
        /\ Present(doc, <<"metadata", "name">>)
        /\ NonEmptyStr(ValueAt(doc, <<"metadata", "name">>))
        /\ Present(doc, <<"spec", "infrastructureRef", "kind">>)
        /\ NonEmptyStr(ValueAt(doc, <<"spec", "infrastructureRef", "kind">>))
        /\ Present(doc, <<"spec", "infrastructureRef", "name">>)
        /\ NonEmptyStr(ValueAt(doc, <<"spec", "infrastructureRef", "name">>))


\* the spec fields of a Machine that are deprecated and hold a duration
MachineDurationFields == {"nodeDeletionTimeout", "nodeDrainTimeout", "nodeVolumeDetachTimeout"}

\* the issues of the result whose field is spec.F
IssuesAbout(F) == SelectSeq(result.out, LAMBDA i : i.field = <<"spec", F>>)

\* the issue comes from the Machine rows of DEPRECATED_FIELDS
FromDeprecatedTable(i) ==
    \E k \in 1..Len(DEPRECATED_FIELDS.Machine) :
        /\ DEPRECATED_FIELDS.Machine[k].field = i.field
        /\ DEPRECATED_FIELDS.Machine[k].reason = i.reason
        /\ DEPRECATED_FIELDS.Machine[k].action = i.action

FromDurationCheck(i) == i.reason = "Duration fields changed from string to int32 seconds"

RepoRoot == <<"repo">>

\* ensure_code_review_dir: repo_root / ".code-review"
CodeReviewDir == Append(RepoRoot, ".code-review")

\* Path(args.output).name for the --output values of the model
OutputNames ==
    ("coderabbit-report.txt" :> "coderabbit-report.txt")
 @@ ("../../x.txt" :> "x.txt")
 @@ ("/etc/passwd" :> "passwd")
 @@ (".." :> "..")
 @@ ("." :> "")

\* (code_review_dir / output_name).resolve()
OutputPath(output) ==
    LET output_name == OutputNames[output]
    IN  IF output_name = "" THEN CodeReviewDir
        ELSE IF output_name = ".." THEN SubSeq(CodeReviewDir, 1, Len(CodeReviewDir) - 1)
        ELSE Append(CodeReviewDir, output_name)

\* the path names a directory: write_text raises IsADirectoryError
IsDirectory(file) == file \in {RepoRoot, CodeReviewDir}

\* the chunks of output the coderabbit process can write before it ends
MaxChunks == 2

CoderabbitEnvs ==
    [usage_ok : BOOLEAN, repo_root : BOOLEAN, binary : BOOLEAN,
     output : DOMAIN OutputNames, status : {0, 1}]

InitCoderabbit ==
    /\ renv \in CoderabbitEnvs
    /\ rpc = "parse_args"
    /\ rchild = [state |-> "none", written |-> 0, status |-> 0]
    /\ rstdout = <<>>
    /\ rfile = <<>>
    /\ rtimedout = FALSE
    /\ rexit = <<>>
    /\ IdleAnalyses /\ IdleRuns /\ IdleLint /\ IdleKubeadm /\ IdleVersions

CoderabbitOthers == <<analysisVars, runVars, lintVars, kubeadmVars, versionVars>>

\* the process ends with a status: sys.exit(main()), or sys.exit(1) in the
\* handler of `except Exception`, or argparse's exit
CrExit(status) == rpc' = "exit" /\ rexit' = <<status>>

\* parser.parse_args(): a usage error ends the process with status 2
CrParseArgs ==
    /\ rpc = "parse_args"
    /\ IF renv.usage_ok THEN rpc' = "resolve_repo_root" /\ rexit' = rexit ELSE CrExit(2)
    /\ UNCHANGED <<renv, rchild, rstdout, rfile, rtimedout, CoderabbitOthers>>

\* resolve_repo_root, ensure_code_review_dir and the output path
CrResolve ==
    /\ rpc = "resolve_repo_root"
    /\ IF renv.repo_root THEN rpc' = "which" /\ rexit' = rexit ELSE CrExit(1)
    /\ UNCHANGED <<renv, rchild, rstdout, rfile, rtimedout, CoderabbitOthers>>

\* shutil.which("coderabbit")
CrWhich ==
    /\ rpc = "which"
    /\ IF renv.binary THEN rpc' = "popen" /\ rexit' = rexit ELSE CrExit(1)
    /\ UNCHANGED <<renv, rchild, rstdout, rfile, rtimedout, CoderabbitOthers>>

\* subprocess.Popen(...)
CrPopen ==
    /\ rpc = "popen"
    /\ rchild' = [rchild EXCEPT !.state = "running"]
    /\ rpc' = "communicate"
    /\ UNCHANGED <<renv, rstdout, rfile, rtimedout, rexit, CoderabbitOthers>>

\* the coderabbit process writes to its stdout or stderr
ChildWrite ==
    /\ rchild.state = "running"
    /\ rchild.written < MaxChunks
    /\ rchild' = [rchild EXCEPT !.written = @ + 1]
    /\ UNCHANGED <<renv, rpc, rstdout, rfile, rtimedout, rexit, CoderabbitOthers>>

\* the coderabbit process ends by itself
ChildExit ==
    /\ rchild.state = "running"
    /\ rchild' = [rchild EXCEPT !.state = "exited", !.status = renv.status]
    /\ UNCHANGED <<renv, rpc, rstdout, rfile, rtimedout, rexit, CoderabbitOthers>>

\* process.communicate(timeout=timeout_seconds) returns: the process has ended
CrCommunicate ==
    /\ rpc = "communicate"
    /\ rchild.state = "exited"
    /\ rstdout' = <<rchild.written>>
    /\ rpc' = "write"
    /\ UNCHANGED <<renv, rchild, rfile, rtimedout, rexit, CoderabbitOthers>>

\* process.communicate(timeout=timeout_seconds) raises TimeoutExpired
CrTimeoutExpired ==
    /\ rpc = "communicate"
    /\ rchild.state = "running"
    /\ rtimedout' = TRUE
    /\ rpc' = "kill"
    /\ UNCHANGED <<renv, rchild, rstdout, rfile, rexit, CoderabbitOthers>>

\* process.kill(): no signal is sent to a process that has ended
CrKill ==
    /\ rpc = "kill"
    /\ rchild' = IF rchild.state = "running"
                 THEN [rchild EXCEPT !.state = "killed", !.status = 0 - 9]
                 ELSE rchild
    /\ rpc' = "collect"
    /\ UNCHANGED <<renv, rstdout, rfile, rtimedout, rexit, CoderabbitOthers>>

\* process.communicate() after the kill
CrCollect ==
    /\ rpc = "collect"
    /\ rstdout' = <<rchild.written>>
    /\ rpc' = "write_timed_out"
    /\ UNCHANGED <<renv, rchild, rfile, rtimedout, rexit, CoderabbitOthers>>

\* output_path.write_text(stdout or ""): the files after the call; nothing is
\* written when the call raises
WriteOutput(files, file, stdout) ==
    IF IsDirectory(file) THEN files
    ELSE Append(files, [file |-> file, text |-> stdout, child |-> rchild.state])

\* line 26-27: write the output, then RuntimeError("coderabbit timed out")
CrWriteTimedOut ==
    /\ rpc = "write_timed_out"
    /\ rfile' = WriteOutput(rfile, OutputPath(renv.output), rstdout[1])
    /\ CrExit(1)
    /\ UNCHANGED <<renv, rchild, rstdout, rtimedout, CoderabbitOthers>>

\* line 29-30 and main, lines 72-75: write the output and return the status
CrWrite ==
    /\ rpc = "write"
    /\ rfile' = WriteOutput(rfile, OutputPath(renv.output), rstdout[1])
    /\ IF IsDirectory(OutputPath(renv.output)) THEN CrExit(1)
       ELSE IF rchild.status # 0 THEN CrExit(1)
       ELSE CrExit(0)
    /\ UNCHANGED <<renv, rchild, rstdout, rtimedout, CoderabbitOthers>>

NextCoderabbit ==
    \/ CrParseArgs \/ CrResolve \/ CrWhich \/ CrPopen
    \/ ChildWrite \/ ChildExit
    \/ CrCommunicate \/ CrTimeoutExpired \/ CrKill \/ CrCollect
    \/ CrWriteTimedOut \/ CrWrite

SpecCoderabbit == InitCoderabbit /\ [][NextCoderabbit]_vars

\* the file lies directly inside the .code-review directory
DirectlyInCodeReview(file) ==
    /\ Len(file) = Len(CodeReviewDir) + 1
    /\ SubSeq(file, 1, Len(CodeReviewDir)) = CodeReviewDir

\* the run found the binary and has ended
EndedWithBinary == rpc = "exit" /\ rchild.state # "none"

\* C29 (as claimed): in a run that found the binary the output file is written
\* exactly once, with the captured output, on a timeout only after the process
\* was killed and its output collected; the file lies directly inside
\* .code-review whatever --output is; the exit status is 0 iff the process
\* ended within the timeout with status 0, and 1 otherwise and when the binary
\* is missing.
C29_OneWriteAndExitStatus ==
    /\ \A i \in 1..Len(rfile) :
        /\ DirectlyInCodeReview(rfile[i].file)
        /\ rfile[i].child \in {"exited", "killed"}
        /\ rfile[i].text = rchild.written
    /\ EndedWithBinary =>
        /\ Len(rfile) = 1
        /\ rexit = <<0>> <=> (~rtimedout /\ rchild.state = "exited" /\ rchild.status = 0)
        /\ rexit \in {<<0>>, <<1>>}
    /\ (rpc = "exit" /\ renv.usage_ok /\ renv.repo_root /\ ~renv.binary) => rexit = <<1>>


(***************************************************************************)
(* compare_versions.py                                                     *)
(***************************************************************************)
\* the version change database, by version
VERSION_CHANGES ==
    ("v1.6.0" :>
        [go_version |-> "1.21",
         kubernetes |-> [min |-> "v1.25.0", max |-> "v1.29.x"],
         features |->
            <<"ClusterClass topology variables", "MachinePool support improved", "In-place propagation for topology">>,
         deprecations |-> <<>>,
         breaking_changes |-> <<>>])
 @@ ("v1.7.0" :>
        [go_version |-> "1.22",
         kubernetes |-> [min |-> "v1.26.0", max |-> "v1.30.x"],
         features |->
            <<"v1beta2 conditions (preview)", "Improved topology reconciliation", "Better error messages">>,
         deprecations |-> <<"UseExperimentalRetryJoin deprecated">>,
         breaking_changes |-> <<>>])
 @@ ("v1.8.0" :>
        [go_version |-> "1.22",
         kubernetes |-> [min |-> "v1.27.0", max |-> "v1.31.x"],
         features |->
            <<"v1beta2 API (alpha)", "ClusterClass runtimeSDK hooks", "MachineSet preflight checks">>,
         deprecations |-> <<"status.phase fields deprecated in favor of conditions", "Legacy object references (Kind+APIVersion)">>,
         breaking_changes |-> <<>>])
 @@ ("v1.9.0" :>
        [go_version |-> "1.23",
         kubernetes |-> [min |-> "v1.28.0", max |-> "v1.32.x"],
         features |->
            <<"v1beta2 API (beta)", "Improved ClusterClass patching", "MachineDeployment rollout strategy">>,
         deprecations |-> <<"duration fields with int type (use string)", "TypedObjectReference without suffix">>,
         breaking_changes |-> <<"Go 1.23 required">>])
 @@ ("v1.10.0" :>
        [go_version |-> "1.23",
         kubernetes |-> [min |-> "v1.29.0", max |-> "v1.33.x"],
         features |->
            <<"SSA migration support", "ClusterClass dry-run", "Improved machine deletion">>,
         deprecations |-> <<"ControlPlaneRef/InfrastructureRef without Ref suffix">>,
         breaking_changes |-> <<>>])
 @@ ("v1.11.0" :>
        [go_version |-> "1.24",
         kubernetes |-> [min |-> "v1.30.0", max |-> "v1.34.x"],
         features |->
            <<"ClusterClass variable discovery", "Improved rollout controls">>,
         deprecations |-> <<>>,
         breaking_changes |-> <<"Go 1.24 required">>])
 @@ ("v1.12.0" :>
        [go_version |-> "1.24",
         kubernetes |-> [min |-> "v1.31.0", max |-> "v1.35.x"],
         features |->
            <<"v1beta2 conditions GA", "Enhanced topology validation", "Improved observability">>,
         deprecations |-> <<"v1beta1 conditions (use v1beta2)">>,
         breaking_changes |-> <<>>])

\* VERSION_CHANGES.keys(): the versions in the order the dict holds them
VersionKeys == <<"v1.6.0", "v1.7.0", "v1.8.0", "v1.9.0", "v1.10.0", "v1.11.0", "v1.12.0">>

\* The characters of the version strings of the model (TLC has no character
\* operations on strings).
Characters ==
    ("v1.6.0" :> <<"v", "1", ".", "6", ".", "0">>)
 @@ ("v1.7.0" :> <<"v", "1", ".", "7", ".", "0">>)
 @@ ("v1.8.0" :> <<"v", "1", ".", "8", ".", "0">>)
 @@ ("v1.9.0" :> <<"v", "1", ".", "9", ".", "0">>)
 @@ ("v1.10.0" :> <<"v", "1", ".", "1", "0", ".", "0">>)
 @@ ("v1.11.0" :> <<"v", "1", ".", "1", "1", ".", "0">>)
 @@ ("v1.12.0" :> <<"v", "1", ".", "1", "2", ".", "0">>)
 @@ ("v1.5.0" :> <<"v", "1", ".", "5", ".", "0">>)
 @@ ("1.9.0" :> <<"1", ".", "9", ".", "0">>)
 @@ ("v1.10" :> <<"v", "1", ".", "1", "0">>)
 @@ ("v2" :> <<"v", "2">>)
 @@ ("latest" :> <<"l", "a", "t", "e", "s", "t">>)
 @@ ("" :> <<>>)
 @@ ("vv1.9.0" :> <<"v", "v", "1", ".", "9", ".", "0">>)
 @@ ("v1.9.0.1" :> <<"v", "1", ".", "9", ".", "0", ".", "1">>)
 @@ ("v1.x.0" :> <<"v", "1", ".", "x", ".", "0">>)
 @@ ("v1.9.5" :> <<"v", "1", ".", "9", ".", "5">>)

\* version.lstrip("v"): every leading "v" is removed
RECURSIVE LStripV(_)
LStripV(chars) ==
    IF chars # <<>> /\ Head(chars) = "v" THEN LStripV(Tail(chars)) ELSE chars

\* v.split("."): the parts between the dots, at least one
RECURSIVE SplitDots(_, _)
SplitDots(chars, part) ==
    IF chars = <<>> THEN <<part>>
    ELSE IF Head(chars) = "." THEN <<part>> \o SplitDots(Tail(chars), <<>>)
    ELSE SplitDots(Tail(chars), Append(part, Head(chars)))

DigitValue ==
    [c \in {"0", "1", "2", "3", "4", "5", "6", "7", "8", "9"} |->
        CASE c = "0" -> 0 [] c = "1" -> 1 [] c = "2" -> 2 [] c = "3" -> 3 [] c = "4" -> 4
          [] c = "5" -> 5 [] c = "6" -> 6 [] c = "7" -> 7 [] c = "8" -> 8 [] c = "9" -> 9]

\* A variant of int() that reads the last digit only.
LastDigit(part) ==
    IF part = <<>> \/ \E i \in 1..Len(part) : part[i] \notin DOMAIN DigitValue
    THEN Throws("ValueError")
    ELSE Returns(DigitValue[part[Len(part)]])

\* int(part) for a part made of digits and letters: ValueError unless it is a
\* non-empty run of digits
IntOf(part) ==
    IF part = <<>> \/ \E i \in 1..Len(part) : part[i] \notin DOMAIN DigitValue
    THEN Throws("ValueError")
    ELSE LET Value[i \in 0..Len(part)] ==
                IF i = 0 THEN 0 ELSE 10 * Value[i - 1] + DigitValue[part[i]]
         IN  Returns(Value[Len(part)])

\* parse_version(version): (major, minor, patch), (0, 0, 0) on a ValueError
parse_version(version) ==
    LET parts == SplitDots(LStripV(Characters[version]), <<>>)
        major == IntOf(parts[1])
        minor == IF Len(parts) > 1 THEN IntOf(parts[2]) ELSE Returns(0)
        patch == IF Len(parts) > 2 THEN IntOf(parts[3]) ELSE Returns(0)
    IN  IF major.exc # "none" \/ minor.exc # "none" \/ patch.exc # "none"
        THEN <<0, 0, 0>>
        ELSE <<major.out, minor.out, patch.out>>

\* a < b for tuples of three integers
TupleLess(a, b) ==
    \/ a[1] < b[1]
    \/ a[1] = b[1] /\ a[2] < b[2]
    \/ a[1] = b[1] /\ a[2] = b[2] /\ a[3] < b[3]

\* sorted(keys, key=parse_version): a stable insertion sort
RECURSIVE InsertByVersion(_, _)
InsertByVersion(sorted, v) ==
    IF sorted = <<>> THEN <<v>>
    ELSE IF TupleLess(parse_version(v), parse_version(Head(sorted)))
    THEN <<v>> \o sorted
    ELSE <<Head(sorted)>> \o InsertByVersion(Tail(sorted), v)

RECURSIVE SortedByVersion(_)
SortedByVersion(keys) ==
    IF keys = <<>> THEN <<>>
    ELSE InsertByVersion(SortedByVersion(SubSeq(keys, 1, Len(keys) - 1)), keys[Len(keys)])

\* from_tuple < v_tuple <= to_tuple
InRange(from_tuple, v_tuple, to_tuple) ==
    TupleLess(from_tuple, v_tuple) /\ ~TupleLess(to_tuple, v_tuple)

get_versions_between(from_v, to_v) ==
    SelectSeq(SortedByVersion(VersionKeys),
              LAMBDA v : InRange(parse_version(from_v), parse_version(v), parse_version(to_v)))

\* VERSION_CHANGES.get(v, {}) is truthy
KnownVersion(v) == v \in DOMAIN VERSION_CHANGES

\* compare_versions(from_v, to_v) without the API changes, which are constant
compare_versions(from_v, to_v) ==
    LET versions == get_versions_between(from_v, to_v)
        both == KnownVersion(from_v) /\ KnownVersion(to_v)
    IN  [from_version |-> from_v,
         to_version |-> to_v,
         versions_between |-> versions,
         new_features |->
            Flatten([i \in 1..Len(versions) |-> VERSION_CHANGES[versions[i]].features]),
         deprecations |->
            Flatten([i \in 1..Len(versions) |-> VERSION_CHANGES[versions[i]].deprecations]),
         breaking_changes |->
            Flatten([i \in 1..Len(versions) |-> VERSION_CHANGES[versions[i]].breaking_changes]),
         kubernetes_change |->
            IF both
            THEN <<[from_min |-> VERSION_CHANGES[from_v].kubernetes.min,
                    from_max |-> VERSION_CHANGES[from_v].kubernetes.max,
                    to_min |-> VERSION_CHANGES[to_v].kubernetes.min,
                    to_max |-> VERSION_CHANGES[to_v].kubernetes.max]>>
            ELSE <<>>,
         go_change |->
            IF both
            THEN <<[from |-> VERSION_CHANGES[from_v].go_version,
                    to |-> VERSION_CHANGES[to_v].go_version]>>
            ELSE <<>>]

InitVersions ==
    /\ venv \in [from_v : DOMAIN Characters, to_v : DOMAIN Characters]
    /\ vpc = "call"
    /\ vcomp = <<>>
    /\ IdleAnalyses /\ IdleRuns /\ IdleLint /\ IdleKubeadm /\ IdleCoderabbit

\* compare_versions(args.from_version, args.to_version)
CompareVersions ==
    /\ vpc = "call"
    /\ vcomp' = <<compare_versions(venv.from_v, venv.to_v)>>
    /\ vpc' = "done"
    /\ UNCHANGED <<venv, analysisVars, runVars, lintVars, kubeadmVars, coderabbitVars>>

NextVersions == CompareVersions

SpecVersions == InitVersions /\ [][NextVersions]_vars

\* the minor release number of the versions of the database, all of major 1
\* and patch 0
MinorRelease ==
    ("v1.6.0" :> 6) @@ ("v1.7.0" :> 7) @@ ("v1.8.0" :> 8) @@ ("v1.9.0" :> 9)
 @@ ("v1.10.0" :> 10) @@ ("v1.11.0" :> 11) @@ ("v1.12.0" :> 12)

\* the versions of a sequence, as a set
Members(s) == {s[i] : i \in 1..Len(s)}

\* the field of the database entries of the versions, in their order
Aggregated(versions, field) ==
    Flatten([i \in 1..Len(versions) |-> VERSION_CHANGES[versions[i]][field]])

\* C30: the versions between are exactly the versions v of the database with
\* parse(from) < parse(v) <= parse(to) as integer tuples, in strictly ascending
\* order (v1.10.0 after v1.9.0); there is none when from >= to; the features,
\* deprecations and breaking changes are those of exactly these versions, in
\* order, and never those of the from-version.
C30_VersionsBetween ==
    vpc = "done" =>
        LET versions == vcomp[1].versions_between
            from_t == parse_version(venv.from_v)
            to_t == parse_version(venv.to_v)
        IN  /\ Members(versions) =
                {v \in DOMAIN VERSION_CHANGES :
                    TupleLess(from_t, parse_version(v)) /\ ~TupleLess(to_t, parse_version(v))}
            /\ \A i, j \in 1..Len(versions) :
                i < j => TupleLess(parse_version(versions[i]), parse_version(versions[j]))
            /\ \A v \in DOMAIN VERSION_CHANGES : parse_version(v) = <<1, MinorRelease[v], 0>>
            /\ \A i, j \in 1..Len(versions) :
                i < j => MinorRelease[versions[i]] < MinorRelease[versions[j]]
            /\ (KnownVersion(venv.from_v) /\ KnownVersion(venv.to_v)) =>
                Members(versions) =
                    {v \in DOMAIN VERSION_CHANGES :
                        /\ MinorRelease[venv.from_v] < MinorRelease[v]
                        /\ MinorRelease[v] <= MinorRelease[venv.to_v]}
            /\ ~TupleLess(from_t, to_t) => versions = <<>>
            /\ venv.from_v \notin Members(versions)
            /\ vcomp[1].new_features = Aggregated(versions, "features")
            /\ vcomp[1].deprecations = Aggregated(versions, "deprecations")
            /\ vcomp[1].breaking_changes = Aggregated(versions, "breaking_changes")

\* from v1.8.0 to v1.10.0: v1.9.0, then v1.10.0, with their changes and
\* without those of v1.8.0
C30_Witness ==
    /\ vpc = "done"
    /\ venv = [from_v |-> "v1.8.0", to_v |-> "v1.10.0"]
    /\ vcomp[1].versions_between = <<"v1.9.0", "v1.10.0">>
    /\ vcomp[1].breaking_changes = <<"Go 1.23 required">>
    /\ Len(vcomp[1].new_features) = 6
    /\ Len(vcomp[1].deprecations) = 3
    /\ "v1beta2 API (alpha)" \notin Members(vcomp[1].new_features)

====
